---- MODULE Spec2Model ----
(***************************************************************************)
(* A model of katex-rs: the per-thread engine cache and the render entry   *)
(* functions (src/src/lib.rs), the options object and its builder          *)
(* (src/src/lib.rs), and the JS engine back ends with their value types    *)
(* (src/src/js_engine/*.rs).                                               *)
(*                                                                         *)
(* Each part of the program has its own specification over the same        *)
(* variables; the variables of the other parts stay at their idle values.  *)
(*   SpecCache   thread_local KATEX, init_katex, render_with_opts          *)
(*   SpecEngine  the Arc-based ducc engine and the scoped duktape engine   *)
(*   SpecValue   from_* / is_* / into_* of the back ends' value types      *)
(*   SpecOpts    OptsBuilder, Opts and its setters                         *)
(*   SpecBackend new / eval / call_function of the five back ends          *)
(*   SpecConv    Opts::to_js_value and Into<JsValue> for Opts              *)
(*   SpecSeq     from_array / from_object and create_object_value          *)
(*   SpecBuild   the cfg_if! selection of the back end (js_engine.rs)      *)
(*   SpecRender  one thread's render calls and what the payload receives   *)
(*   SpecError   From<ducc::Error> at the ? of the duktape adapter         *)
(*   SpecMacro   add_macro on the builder and on the Opts                  *)
(*   SpecTrust   TrustContext::try_from and TrustCallback::call            *)
(***************************************************************************)
EXTENDS Integers, Sequences, FiniteSets, TLC

VARIABLES
    \* ---- the cache (lib.rs) ----
    KATEX,        \* thread -> the thread_local slot: Result<JsContext>
    contexts,     \* thread -> the JsContext that thread's init_katex made
    initCount,    \* thread -> how often init_katex ran on it
    calls,        \* thread -> number of render calls made on it
    lastCall,     \* the latest render call, its thread and its result
    lastTransient,  \* thread -> its latest call returned JsExecError/JsValueError
    priorTransient, \* thread -> a call before its latest one did
    initError,    \* thread -> the error the thread's first init_katex returned
    enginePhase,  \* slot -> how far the operations on its engine have come
    users,        \* slot -> the threads whose calls read or wrote the slot
    \* ---- the engines (duktabe.rs, duktape.rs) ----
    handle,       \* engine -> the Engine value is alive
    strong,       \* engine -> strong count of its Arc<ducc::Ducc>
    ctxState,     \* engine -> "none" | "live" | "destroyed" (the native heap)
    globals,      \* engine -> the names bound to functions in its global object
    pool,         \* the Values the host holds, in the order it got them
    lastInvoke,   \* the call_function of the latest step, if it was one
    scoped,       \* the scoped duktape engine: engine, scope and values
    \* ---- values (duktabe.rs, quick_js.rs, quickjs_runtime.rs) ----
    val,          \* the value under test
    origin,       \* how it was made
    preds,        \* the is_* answers read from it
    narrowed,     \* the latest into_* call and its result
    \* ---- options (lib.rs) ----
    builder,      \* Option of the OptsBuilder the host holds
    opts,         \* Option of the Opts the host holds
    built,        \* the builder's assignments and its latest build()
    panicked,     \* the latest set_* call on the Opts and whether it panicked
    \* ---- the back ends behind the JsEngine trait (js_engine/*.rs) ----
    bk,           \* the back end this build selected ("none" before the first new)
    heaps,        \* engine -> made, the globals of its own heap, a failed eval
    hostGlobal,   \* the global object of the embedding host (wasm-js)
    lastOp,       \* the latest new / eval / call_function and its result
    \* ---- the options object handed to the payload (opts.rs, lib.rs) ----
    convOpts,     \* the Opts the host has set up
    convOut,      \* the latest conversion of it and the object it gave
    \* ---- arrays and objects (duktabe.rs, duktape.rs, quick_js.rs, ...) ----
    seqIn,        \* the pairs or values the host's iterator yields, in order
    seqOut,       \* the latest from_object / from_array of them and its result
    \* ---- the build (js_engine.rs) ----
    features,     \* the cargo features enabled
    target,       \* the build target
    compiled,     \* the outcome of the latest compilation of js_engine.rs
    \* ---- one thread's render calls, observed in full (lib.rs) ----
    tls,          \* the thread's KATEX slot and its context
    seen,         \* the latest call: input, options, result, what the payload got
    \* ---- From<ducc::Error> (duktape.rs) ----
    converted,    \* the latest ducc::Error converted and the crate Error it gave
    \* ---- add_macro (opts.rs, lib.rs) ----
    macroState,   \* the builder's and the Opts' macros and the calls that made them
    \* ---- TrustCallback::call (lib.rs) ----
    trustCall     \* the latest call of the callback: its arguments and its result

cacheVars  == <<KATEX, contexts, initCount, calls, lastCall, lastTransient,
               priorTransient, initError, enginePhase, users>>
engineVars == <<handle, strong, ctxState, globals, pool, lastInvoke, scoped>>
valueVars  == <<val, origin, preds, narrowed>>
optsVars   == <<builder, opts, built, panicked>>
backendVars == <<bk, heaps, hostGlobal, lastOp>>
coreVars   == <<cacheVars, engineVars, valueVars, optsVars>>
convVars   == <<convOpts, convOut>>
seqVars    == <<seqIn, seqOut>>
buildVars  == <<features, target, compiled>>
moreVars   == <<backendVars, convVars, seqVars, buildVars>>
renderVars == <<tls, seen>>
lateVars   == <<renderVars, converted, macroState, trustCall>>
vars       == <<coreVars, moreVars, lateVars>>

----------------------------------------------------------------------------
(* Bounds of the model. *)

\* Threads that call render.
MaxThreads == 2
\* Render calls in one run, over all threads.
MaxCalls == 4
\* Engines of the Arc-based back end alive in one run.
MaxEngines == 2
\* Values the host holds at one time.
MaxValues == 2
\* Items an iterator given to from_array or from_object yields.
MaxItems == 3

Threads == 1..MaxThreads

----------------------------------------------------------------------------
(* Option<T> is a set with at most one element. *)

OptNone == {}
OptSome(x) == {x}
is_some(o) == o # {}
unwrap(o) == CHOOSE x \in o : TRUE

----------------------------------------------------------------------------
(* Errors (lib.rs 37-71, error.rs).                                        *)

\* A native error of the quick_js crate: its type and its Display text.
NativeError(type, text) == [type |-> type, text |-> text]

\* format!("{}", e)
Display(e) == e.text

JsInitError(detail)  == [kind |-> "JsInitError",  detail |-> detail]
JsExecError(detail)  == [kind |-> "JsExecError",  detail |-> detail]
JsValueError(detail) == [kind |-> "JsValueError", detail |-> detail]
NoError              == [kind |-> "none", detail |-> ""]

FromContextError(e)   == JsInitError(Display(e))
\* An execution error reported as a conversion error.
FromExecutionError_asValue(e) == [kind |-> "JsValueError", detail |-> e.text]
FromExecutionError(e) == JsExecError(Display(e))
FromValueError(e)     == JsValueError(Display(e))

\* quick_js::ValueError::UnexpectedType
UnexpectedType == NativeError("ValueError", "Could not convert - received unexpected type")

----------------------------------------------------------------------------
(* quick_js::JsValue, the value the cache passes to and gets from the      *)
(* engine.  Every value is a record of the same shape; only the field its  *)
(* tag names is read.  A float is a count of thousandths, or NaN.          *)

Flt(milli) == [nan |-> FALSE, milli |-> milli]
NaN        == [nan |-> TRUE,  milli |-> 0]

JsBlank    == [t |-> "Null", b |-> FALSE, i |-> 0, f |-> Flt(0), s |-> "", o |-> <<>>, a |-> <<>>]
JsNull     == JsBlank
JsBool(x)  == [JsBlank EXCEPT !.t = "Bool",   !.b = x]
JsInt(x)   == [JsBlank EXCEPT !.t = "Int",    !.i = x]
JsFloat(x) == [JsBlank EXCEPT !.t = "Float",  !.f = x]
JsString(x) == [JsBlank EXCEPT !.t = "String", !.s = x]
JsObject(m) == [JsBlank EXCEPT !.t = "Object", !.o = m]
\* A function value living in the engine, here a registered host callback.
JsFunction(name) == [JsBlank EXCEPT !.t = "Function", !.s = name]

\* HashMap::insert on a map from strings.
Insert(m, k, v) == [x \in (DOMAIN m) \cup {k} |-> IF x = k THEN v ELSE m[x]]
EmptyMap == <<>>

\* quick_js::JsValue::into_string: Some for a string, None for anything else.
JsValue_into_string(v) == IF v.t = "String" THEN OptSome(v.s) ELSE OptNone

----------------------------------------------------------------------------
(* Opts (lib.rs 175-223) and its conversion to the options object.         *)

I32Max == 2147483647

DefaultOpts ==
    [ display_mode       |-> OptNone,
      output_type        |-> OptNone,
      leqno              |-> OptNone,
      fleqn              |-> OptNone,
      throw_on_error     |-> OptNone,
      error_color        |-> OptNone,
      macros             |-> EmptyMap,
      min_rule_thickness |-> OptNone,
      max_size           |-> OptNone,
      max_expand         |-> OptNone,
      trust              |-> OptNone,
      trust_callback     |-> OptNone ]

OutputTypeName(t) ==
    CASE t = "Html"          -> "html"
      [] t = "Mathml"        -> "mathml"
      [] t = "HtmlAndMathml" -> "htmlAndMathml"

\* One `if let Some(x) = field { opt.insert(key, x.into()) }` step, for a
\* bool, a string and a float field.
InsertBool(m, field, key) ==
    IF is_some(field) THEN Insert(m, key, JsBool(unwrap(field))) ELSE m
InsertString(m, field, key) ==
    IF is_some(field) THEN Insert(m, key, JsString(unwrap(field))) ELSE m
InsertFloat(m, field, key) ==
    IF is_some(field) THEN Insert(m, key, JsFloat(unwrap(field))) ELSE m

\* The max_expand step reading the field like max_size: None writes nothing.
InsertMaxExpand_likeMaxSize(m, field) ==
    IF is_some(field) /\ is_some(unwrap(field))
      THEN Insert(m, "maxExpand", JsInt(unwrap(unwrap(field))))
      ELSE m

\* The max_expand step (opts.rs 165-174, lib.rs 353-362): Some(n) writes n,
\* None (no limit) writes i32::max_value().
InsertMaxExpand(m, field) ==
    IF is_some(field)
      THEN IF is_some(unwrap(field))
             THEN Insert(m, "maxExpand", JsInt(unwrap(unwrap(field))))
             ELSE Insert(m, "maxExpand", JsInt(I32Max))
      ELSE m

MacrosIntoJsValue(macros) ==
    JsObject([k \in DOMAIN macros |-> JsString(macros[k])])

\* The conversion writing true, not the sentinel, for a trust_callback.
OptsIntoJsValue_true(o) ==
    LET m1  == InsertBool(EmptyMap, o.display_mode, "displayMode")
        m2  == IF is_some(o.output_type)
                 THEN Insert(m1, "output", JsString(OutputTypeName(unwrap(o.output_type))))
                 ELSE m1
        m3  == InsertBool(m2, o.leqno, "leqno")
        m4  == InsertBool(m3, o.fleqn, "fleqn")
        m5  == InsertBool(m4, o.throw_on_error, "throwOnError")
        m6  == InsertString(m5, o.error_color, "errorColor")
        m7  == Insert(m6, "macros", MacrosIntoJsValue(o.macros))
        m8  == InsertFloat(m7, o.min_rule_thickness, "minRuleThickness")
        m9  == IF is_some(o.max_size) /\ is_some(unwrap(o.max_size))
                 THEN Insert(m8, "maxSize", JsFloat(unwrap(unwrap(o.max_size))))
                 ELSE m8
        m10 == InsertMaxExpand(m9, o.max_expand)
        m11 == InsertBool(m10, o.trust, "trust")
    IN  JsObject(IF is_some(o.trust_callback) THEN Insert(m11, "trust", JsBool(TRUE)) ELSE m11)

\* impl Into<JsValue> for Opts
OptsIntoJsValue(o) ==
    LET m1  == InsertBool(EmptyMap, o.display_mode, "displayMode")
        m2  == IF is_some(o.output_type)
                 THEN Insert(m1, "output", JsString(OutputTypeName(unwrap(o.output_type))))
                 ELSE m1
        m3  == InsertBool(m2, o.leqno, "leqno")
        m4  == InsertBool(m3, o.fleqn, "fleqn")
        m5  == InsertBool(m4, o.throw_on_error, "throwOnError")
        m6  == InsertString(m5, o.error_color, "errorColor")
        m7  == Insert(m6, "macros", MacrosIntoJsValue(o.macros))
        m8  == InsertFloat(m7, o.min_rule_thickness, "minRuleThickness")
        m9  == IF is_some(o.max_size) /\ is_some(unwrap(o.max_size))
                 THEN Insert(m8, "maxSize", JsFloat(unwrap(unwrap(o.max_size))))
                 ELSE m8
        m10 == InsertMaxExpand(m9, o.max_expand)
        m11 == InsertBool(m10, o.trust, "trust")
        m12 == IF is_some(o.trust_callback)
                 THEN Insert(m11, "trust", JsString("USE_TRUST_CALLBACK"))
                 ELSE m11
    IN  JsObject(m12)

----------------------------------------------------------------------------
(* The JS context of the cache (quick_js::Context as lib.rs uses it).      *)

\* A context: the scripts evaluated in it, in order, and the host callback
\* bound to the global trustCallback ("" when none is).
NoContext == [created |-> FALSE, scripts |-> <<>>, trustCallback |-> ""]
NewContext == [NoContext EXCEPT !.created = TRUE]

\* What the native layer answers to the steps of one call: "ok", or the
\* Display text of the error it returns.  Drawn afresh for every call.
EnvSteps == {"new", "evalSrc", "evalWrap", "addCb"}
EnvFailures ==
    [ new      : {"ok", "Could not create runtime"},
      evalSrc  : {"ok", "InternalError: stack overflow", "InternalError: out of memory"},
      evalWrap : {"ok", "InternalError: out of memory"},
      addCb    : {"ok", "Could not add callback"} ]
\* A call stops at its first failing step, so one failing step per call
\* covers every outcome.
EnvOutcomes ==
    {env \in EnvFailures : Cardinality({k \in EnvSteps : env[k] # "ok"}) <= 1}
\* The outcomes of a call on a thread whose slot is `slot`, with options o:
\* only the steps the call takes have one.  init_katex runs for an
\* uninitialized slot, add_callback when there is a trust_callback.
EnvOf(slot, o) ==
    {env \in EnvOutcomes :
        /\ slot.state # "uninit" =>
              (env.new = "ok" /\ env.evalSrc = "ok" /\ env.evalWrap = "ok")
        /\ ~is_some(o.trust_callback) => env.addCb = "ok"}

\* The host callbacks a caller may pass as trust_callback.
TrustCallbacks == {"cbAllow", "cbDeny"}
CallbackAnswer(cb) == cb = "cbAllow"

\* The inputs and options render is called with.
Inputs == {"a = b + c", "\\", "\\url{https://www.google.com}"}
RenderOpts ==
    { DefaultOpts,
      [DefaultOpts EXCEPT !.throw_on_error = OptSome(FALSE)],
      [DefaultOpts EXCEPT !.trust_callback = OptSome("cbAllow")],
      [DefaultOpts EXCEPT !.trust_callback = OptSome("cbDeny")] }

\* A script throwing an Error object: its name, its message, and the text
\* the engine makes of it (Error.prototype.toString: "name: message").
Throw(name, message) ==
    [threw |-> TRUE, text |-> name \o ": " \o message, message |-> message,
     ret |-> JsNull, called |-> "", given |-> OptNone]

\* katex.renderToString of the vendored payload, as far as the tests and the
\* entry callable contract describe it: it returns a string, or throws a
\* ParseError for invalid LaTeX unless throwOnError is false.  It asks the
\* trust option about a \url command only; called is the function it called
\* to do so ("" when trust is no function or the input has no such command).
katex_renderToString(input, o) ==
    LET has(k) == k \in DOMAIN o
        display == has("displayMode") /\ o["displayMode"].t = "Bool" /\ o["displayMode"].b
        lenient == has("throwOnError") /\ o["throwOnError"].t = "Bool" /\ ~o["throwOnError"].b
        trusted == /\ has("trust")
                   /\ \/ o["trust"].t = "Bool" /\ o["trust"].b
                      \/ o["trust"].t = "Function" /\ CallbackAnswer(o["trust"].s)
        body == CASE input = "\\" -> "katex-error"
                  [] input = "\\url{https://www.google.com}" ->
                        IF trusted THEN "katex a href" ELSE "katex color"
                  [] OTHER -> "katex"
    IN  IF input = "\\" /\ ~lenient
          THEN [Throw("ParseError", "KaTeX parse error") EXCEPT !.given = OptSome(o)]
          ELSE [threw |-> FALSE, text |-> "", message |-> "",
                ret |-> JsString((IF display THEN "katex-display " ELSE "") \o body),
                called |-> IF /\ input = "\\url{https://www.google.com}"
                              /\ has("trust") /\ o["trust"].t = "Function"
                             THEN o["trust"].s ELSE "",
                given |-> OptSome(o)]

\* A wrapper that hands over the registered callback whenever there is one.
renderToString_registered(ctx, input, optsJs) ==
    katex_renderToString(input,
        IF ctx.trustCallback # ""
          THEN Insert(optsJs.o, "trust", JsFunction(ctx.trustCallback))
          ELSE optsJs.o)

\* The wrapper init_katex defines (lib.rs 79-84).
renderToString(ctx, input, optsJs) ==
    LET o == optsJs.o
        sentinel == /\ "trust" \in DOMAIN o
                    /\ o["trust"].t = "String"
                    /\ o["trust"].s = "USE_TRUST_CALLBACK"
    IN  IF sentinel /\ ctx.trustCallback = ""
          THEN Throw("ReferenceError", "trustCallback is not defined")
          ELSE katex_renderToString(input,
                 IF sentinel THEN Insert(o, "trust", JsFunction(ctx.trustCallback)) ELSE o)

\* Context::call_function: the named global must be a function of the context;
\* a thrown exception comes back as ExecutionError::Exception, which carries
\* the text of the thrown value.  raised is the message of that exception,
\* given the options object katex.renderToString received (if it was called).
call_function(ctx, name, args) ==
    IF ~(\E i \in 1..Len(ctx.scripts) : ctx.scripts[i] = name)
      THEN [ok |-> FALSE, err |-> NativeError("ExecutionError", "not a function"),
            ret |-> JsNull, raised |-> OptNone, called |-> "", given |-> OptNone]
      ELSE LET r == renderToString(ctx, args[1].s, args[2])
           IN  IF r.threw
                 THEN [ok |-> FALSE, err |-> NativeError("ExecutionError", r.text),
                       ret |-> JsNull, raised |-> OptSome(r.message), called |-> r.called,
                       given |-> r.given]
                 ELSE [ok |-> TRUE, err |-> NativeError("", ""), ret |-> r.ret,
                       raised |-> OptNone, called |-> r.called, given |-> r.given]

\* Context::add_callback
add_callback(ctx, name, cb, env) ==
    IF env.addCb # "ok"
      THEN [ok |-> FALSE, err |-> NativeError("ExecutionError", env.addCb), ctx |-> ctx]
      ELSE [ok |-> TRUE, err |-> NativeError("", ""),
            ctx |-> [ctx EXCEPT !.trustCallback = cb]]

----------------------------------------------------------------------------
(* The cache: thread_local KATEX, init_katex, render_with_opts.            *)

Uninit       == [state |-> "uninit", err |-> NoError]
SlotOk       == [state |-> "ok",     err |-> NoError]
SlotErr(e)   == [state |-> "err",    err |-> e]

\* One operation on an engine and whether it succeeded.
EngineOp(op, ok) == [op |-> op, ok |-> ok]

\* init_katex (lib.rs 74-88): a new context, the KaTeX source, the wrapper.
\* Each `?` returns at the first failure; ops lists the operations made.
init_katex(env) ==
    LET new  == EngineOp("new", env.new = "ok")
        src  == EngineOp("eval KATEX_SRC", env.evalSrc = "ok")
        wrap == EngineOp("eval renderToString", env.evalWrap = "ok")
    IN
    IF env.new # "ok"
      THEN [slot |-> SlotErr(FromContextError(NativeError("ContextError", env.new))),
            ctx |-> NoContext, ops |-> <<new>>]
    ELSE IF env.evalSrc # "ok"
      THEN [slot |-> SlotErr(FromExecutionError(NativeError("ExecutionError", env.evalSrc))),
            ctx |-> NoContext, ops |-> <<new, src>>]
    ELSE IF env.evalWrap # "ok"
      THEN [slot |-> SlotErr(FromExecutionError(NativeError("ExecutionError", env.evalWrap))),
            ctx |-> NoContext, ops |-> <<new, src, wrap>>]
    ELSE [slot |-> SlotOk,
          ctx |-> [NewContext EXCEPT !.scripts = <<"KATEX_SRC", "renderToString">>],
          ops |-> <<new, src, wrap>>]

\* KATEX.with retrying a failed initialization.
KatexWith_retry(slot, ctx, env) ==
    IF slot.state # "ok"
      THEN LET r == init_katex(env)
           IN  [slot |-> r.slot, ctx |-> r.ctx, ran |-> TRUE, ops |-> r.ops]
      ELSE [slot |-> slot, ctx |-> ctx, ran |-> FALSE, ops |-> <<>>]

\* KATEX.with (lib.rs 33-35, 423): the slot is initialized by the first access
\* on the thread and only read afterwards.
KatexWith(slot, ctx, env) ==
    IF slot.state = "uninit"
      THEN LET r == init_katex(env)
           IN  [slot |-> r.slot, ctx |-> r.ctx, ran |-> TRUE, ops |-> r.ops]
      ELSE [slot |-> slot, ctx |-> ctx, ran |-> FALSE, ops |-> <<>>]

OkResult(text) == [kind |-> "Ok", detail |-> text]
NoResult       == [kind |-> "none", detail |-> ""]

\* Answering a cached failure with its kind only, the detail dropped.
cached_error_nodetail(e) == [kind |-> e.kind, detail |-> ""]

\* `Err(e) => return Err(e.clone())` (lib.rs 426): a copy of the cached error.
cached_error(e) == [kind |-> e.kind, detail |-> e.detail]

\* The closure of render_with_opts past the match on the slot (lib.rs
\* 428-436): the callback registration, the call and the narrowing.  ops
\* lists the operations it makes on the engine, raised is the message of the
\* exception the entry callable threw, args the arguments it called with.
\* The closure registering the callback only when none is registered yet.
render_call_keepfirst(ctx, input, o, env) ==
    LET kept == IF is_some(o.trust_callback) /\ ctx.trustCallback = ""
                  THEN [ctx EXCEPT !.trustCallback = unwrap(o.trust_callback)]
                  ELSE ctx
        args == <<JsString(input), OptsIntoJsValue(o)>>
        r    == call_function(kept, "renderToString", args)
        str  == JsValue_into_string(r.ret)
    IN  [result |-> IF ~r.ok THEN FromExecutionError(r.err)
                    ELSE IF is_some(str) THEN OkResult(unwrap(str))
                    ELSE FromValueError(UnexpectedType),
         ctx |-> kept, ops |-> <<EngineOp("call_function", r.ok)>>,
         raised |-> r.raised, called |-> r.called, given |-> r.given, args |-> args]

render_call(ctx, input, o, env) ==
    LET hasCb == is_some(o.trust_callback)
        reg == IF hasCb
                 THEN add_callback(ctx, "trustCallback", unwrap(o.trust_callback), env)
                 ELSE [ok |-> TRUE, err |-> NativeError("", ""), ctx |-> ctx]
        regOps == IF hasCb THEN <<EngineOp("add_callback", reg.ok)>> ELSE <<>>
    IN  IF ~reg.ok
          THEN [result |-> FromExecutionError(reg.err), ctx |-> ctx, ops |-> regOps,
                raised |-> OptNone, called |-> "", given |-> OptNone, args |-> <<>>]
          ELSE
            LET args == <<JsString(input), OptsIntoJsValue(o)>>
                r    == call_function(reg.ctx, "renderToString", args)
                ops  == Append(regOps, EngineOp("call_function", r.ok))
            IN  IF ~r.ok
                  THEN [result |-> FromExecutionError(r.err), ctx |-> reg.ctx,
                        ops |-> ops, raised |-> r.raised, called |-> r.called,
                        given |-> r.given, args |-> args]
                  ELSE LET str == JsValue_into_string(r.ret)
                       IN  IF is_some(str)
                             THEN [result |-> OkResult(unwrap(str)), ctx |-> reg.ctx,
                                   ops |-> ops, raised |-> OptNone, called |-> r.called,
                                   given |-> r.given, args |-> args]
                             ELSE [result |-> FromValueError(UnexpectedType),
                                   ctx |-> reg.ctx, ops |-> ops, raised |-> OptNone,
                                   called |-> r.called, given |-> r.given,
                                   args |-> args]

\* The closure calling the entry callable whatever the slot holds.
render_closure_unguarded(slot, ctx, input, o, env) ==
    LET r == render_call([ctx EXCEPT !.scripts = <<"KATEX_SRC", "renderToString">>],
                         input, o, env)
    IN  IF slot.state = "err" THEN [r EXCEPT !.result = cached_error(slot.err)] ELSE r

\* The closure of render_with_opts (lib.rs 423-437), given the slot: a cached
\* error is returned before anything is done with an engine.
render_closure(slot, ctx, input, o, env) ==
    IF slot.state = "err"
      THEN [result |-> cached_error(slot.err), ctx |-> ctx, ops |-> <<>>,
            raised |-> OptNone, called |-> "", given |-> OptNone, args |-> <<>>]
      ELSE render_call(ctx, input, o, env)

\* The payload takes this input with these options: it throws nothing.
Accepts(input, o) == ~(input = "\\" /\ o.throw_on_error # OptSome(FALSE))

RECURSIVE SumTo(_, _)
SumTo(f, n) == IF n = 0 THEN 0 ELSE f[n] + SumTo(f, n - 1)
TotalCalls == SumTo(calls, MaxThreads)

IsTransient(result) == result.kind \in {"JsExecError", "JsValueError"}

\* One static slot for the whole process.
SlotOf_static(t) == 1
\* thread_local! (lib.rs 33): every thread has a KATEX slot of its own.
SlotOf(t) == t

\* The operations on one engine are: new, the KaTeX source, the wrapper,
\* then calls.  A failed step of the initialization ends the engine.  The
\* phase moves along that order; any other operation makes it "bad".
PhaseStep(phase, o) ==
    CASE phase = "none" /\ o.op = "new" -> IF o.ok THEN "new" ELSE "dead"
      [] phase = "new" /\ o.op = "eval KATEX_SRC" -> IF o.ok THEN "src" ELSE "dead"
      [] phase = "src" /\ o.op = "eval renderToString" -> IF o.ok THEN "loaded" ELSE "dead"
      [] phase = "loaded" /\ o.op \in {"add_callback", "call_function"} -> "loaded"
      [] OTHER -> "bad"

RECURSIVE PhaseAfter(_, _)
PhaseAfter(phase, ops) ==
    IF ops = <<>> THEN phase
    ELSE PhaseAfter(PhaseStep(phase, Head(ops)), Tail(ops))

\* render_with_opts(input, opts) on thread t (lib.rs 422-438).
RenderWithOpts(t, input, o, env) ==
    /\ TotalCalls < MaxCalls
    /\ env \in EnvOf(KATEX[SlotOf(t)], o)
    /\ LET s == SlotOf(t)
           w == KatexWith(KATEX[s], contexts[s], env)
           r == render_closure(w.slot, w.ctx, input, o, env)
       IN  /\ KATEX' = [KATEX EXCEPT ![s] = w.slot]
           /\ contexts' = [contexts EXCEPT ![s] = r.ctx]
           /\ initCount' = [initCount EXCEPT ![t] = @ + (IF w.ran THEN 1 ELSE 0)]
           /\ initError' = [initError EXCEPT ![t] =
                              IF initCount[t] = 0 /\ w.ran /\ w.slot.state = "err"
                                THEN OptSome(w.slot.err) ELSE @]
           /\ lastCall' = [made |-> TRUE, thread |-> t,
                            accepted |-> Accepts(input, o) /\ env.addCb = "ok",
                            result |-> r.result, raised |-> r.raised]
           /\ lastTransient' = [lastTransient EXCEPT ![t] = IsTransient(r.result)]
           /\ priorTransient' = [priorTransient EXCEPT ![t] = @ \/ lastTransient[t]]
           /\ enginePhase' = [enginePhase EXCEPT ![s] = PhaseAfter(@, w.ops \o r.ops)]
           /\ users' = [users EXCEPT ![s] = @ \cup {t}]
    /\ calls' = [calls EXCEPT ![t] = @ + 1]
    /\ UNCHANGED <<engineVars, valueVars, optsVars, moreVars, lateVars>>

\* render(input) on thread t (lib.rs 440-444).
Render(t, input, env) ==
    RenderWithOpts(t, input, DefaultOpts, env)

InitCache ==
    /\ KATEX = [t \in Threads |-> Uninit]
    /\ contexts = [t \in Threads |-> NoContext]
    /\ initCount = [t \in Threads |-> 0]
    /\ calls = [t \in Threads |-> 0]
    /\ lastCall = [made |-> FALSE, thread |-> 0, accepted |-> FALSE, result |-> NoResult,
                   raised |-> OptNone]
    /\ lastTransient = [t \in Threads |-> FALSE]
    /\ priorTransient = [t \in Threads |-> FALSE]
    /\ initError = [t \in Threads |-> OptNone]
    /\ enginePhase = [t \in Threads |-> "none"]
    /\ users = [t \in Threads |-> {}]

NextCache ==
    \/ \E t \in Threads, input \in Inputs, o \in RenderOpts, env \in EnvOutcomes :
          RenderWithOpts(t, input, o, env)
    \/ \E t \in Threads, input \in Inputs, env \in EnvOutcomes :
          Render(t, input, env)

----------------------------------------------------------------------------
(* Claims about the cache. *)

\* C1: cache stability.  On a thread whose first initialization failed, the
\* slot holds that failure and every render / render_with_opts call made on
\* the thread so far returned an error of the same kind and detail text.
C1_CacheStability ==
    \A t \in Threads :
        is_some(initError[t]) =>
            /\ KATEX[t] = SlotErr(unwrap(initError[t]))
            /\ (lastCall.made /\ lastCall.thread = t) =>
                  /\ lastCall.result.kind = unwrap(initError[t]).kind
                  /\ lastCall.result.detail = unwrap(initError[t]).detail

\* A thread whose initialization failed has made three calls.
C1_Witness ==
    \E t \in Threads : /\ is_some(initError[t]) /\ calls[t] >= 3
                      /\ lastCall.made /\ lastCall.thread = t

\* C2: the slot is written exactly once.  init_katex runs on the first call
\* of a thread, whether it succeeds or fails, and on no later call; a later
\* call leaves the slot as it is.
C2_WriteOnce ==
    [][\A t \in Threads :
          /\ initCount'[t] <= 1
          /\ (calls[t] = 0 /\ calls'[t] = 1) =>
                (initCount'[t] = 1 /\ KATEX'[t].state # "uninit")
          /\ calls[t] >= 1 =>
                (KATEX'[t] = KATEX[t] /\ initCount'[t] = initCount[t])]_vars

\* One thread with a cached engine and one with a cached failure have each
\* been called twice.
C2_Witness ==
    \E t, u \in Threads :
        /\ KATEX[t].state = "ok"  /\ calls[t] >= 2 /\ initCount[t] = 1
        /\ KATEX[u].state = "err" /\ calls[u] >= 2 /\ initCount[u] = 1

\* C3: JsExecError and JsValueError are per-call.  Once a call on a thread
\* has returned JsExecError or JsValueError, a later call on that thread
\* whose input and options the payload accepts (and whose own callback
\* registration succeeds) returns Ok.
C3_TransientPerCall ==
    \A t \in Threads :
        (priorTransient[t] /\ lastCall.made /\ lastCall.thread = t /\ lastCall.accepted)
            => lastCall.result.kind = "Ok"

\* The names of the errors the payload and its wrapper throw.
ExceptionNames == {"ParseError", "ReferenceError"}

\* C13: when the entry callable renderToString raises a native exception,
\* render / render_with_opts returns JsExecError, never Ok, JsInitError or
\* JsValueError, and the detail of the error contains the message of the
\* exception.
C13_ExceptionIsExecError ==
    (lastCall.made /\ is_some(lastCall.raised)) =>
        /\ lastCall.result.kind = "JsExecError"
        /\ \E name \in ExceptionNames :
              lastCall.result.detail = name \o ": " \o unwrap(lastCall.raised)

\* A render call whose entry callable threw the ParseError of KaTeX.
C13_Witness ==
    /\ lastCall.made
    /\ lastCall.raised = OptSome("KaTeX parse error")
    /\ KATEX[lastCall.thread].state = "ok"

\* C14: the payload is loaded exactly once per engine and before any call.
\* The operations on the engine of a slot come in the order new, eval of
\* the KaTeX source, eval of the wrapper, then only callback registrations
\* and calls; nothing is evaluated again and nothing is called on an engine
\* whose load failed or did not finish; the slot holds an engine exactly
\* when the load completed.
C14_PayloadLoadedOnce ==
    \A s \in Threads :
        /\ enginePhase[s] # "bad"
        /\ KATEX[s].state = "uninit" <=> enginePhase[s] = "none"
        /\ KATEX[s].state = "ok" <=> enginePhase[s] = "loaded"
        /\ KATEX[s].state = "err" <=> enginePhase[s] = "dead"

\* A thread made two calls on its loaded engine, another made two calls
\* after its load failed.
C14_Witness ==
    \E s, u \in Threads :
        /\ enginePhase[s] = "loaded" /\ calls[s] >= 2
        /\ enginePhase[u] = "dead" /\ calls[u] >= 2

\* C20: thread affinity of the cache.  Under every interleaving of the
\* threads' calls, the slot and engine a thread uses are used by no other
\* thread, an engine in use was created by a call of the thread using it,
\* and a call on one thread leaves the slot and the engine of every other
\* thread as they were, whether its initialization failed or succeeded.
C20_ThreadAffinity ==
    /\ [](\A s \in Threads :
            /\ Cardinality(users[s]) <= 1
            /\ \A t \in users[s] : KATEX[s].state # "uninit" => initCount[t] = 1)
    /\ [][\A u \in Threads :
            u # lastCall'.thread =>
                /\ KATEX'[SlotOf(u)] = KATEX[SlotOf(u)]
                /\ contexts'[SlotOf(u)] = contexts[SlotOf(u)]]_vars

\* Two threads have called in turn, one holding an engine and one a failure.
C20_Witness ==
    \E t, u \in Threads :
        /\ t # u /\ users[t] = {t} /\ users[u] = {u}
        /\ KATEX[t].state = "ok" /\ KATEX[u].state = "err"
        /\ calls[t] >= 2 /\ calls[u] >= 1

----------------------------------------------------------------------------
(* The Arc-based ducc engine (js_engine/duktabe.rs).                       *)

Engines == 1..MaxEngines
Slots   == 1..MaxValues

\* A ducc::Error: its kind and what the kind carries.
DuccError(kind, code, name, from, to) ==
    [kind |-> kind, code |-> code, name |-> name, from |-> from, to |-> to]
DuccRuntimeError(code, name) == DuccError("RuntimeError", code, name, "", "")
DuccFromJsConversionError(from, to) == DuccError("FromJsConversionError", "", "", from, to)
NoDuccError == DuccError("", "", "", "", "")

\* e.to_string() of a ducc::Error
DuccToString(e) ==
    CASE e.kind = "RuntimeError" -> e.code \o ": " \o e.name
      [] e.kind = "FromJsConversionError" ->
            "error converting JavaScript " \o e.from \o " to " \o e.to
      [] e.kind = "ToJsConversionError" ->
            "error converting " \o e.from \o " to JavaScript " \o e.to
      [] OTHER -> e.kind

\* The texts of the model and their UTF-8 bytes.
Utf8Table == { <<"", <<>>>>, <<"x", <<120>>>>, <<"hi", <<104, 105>>>> }

\* str::as_bytes
as_bytes(s) == (CHOOSE p \in Utf8Table : p[1] = s)[2]

\* Well-formed UTF-8, as String::from_utf8 checks it: one to four bytes a
\* character, no overlong form and no surrogate.
IsCont(b) == b >= 128 /\ b <= 191
RECURSIVE ValidUtf8(_)
ValidUtf8(bs) ==
    IF bs = <<>> THEN TRUE
    ELSE LET b == bs[1]
             n == Len(bs)
         IN  CASE b <= 127 -> ValidUtf8(Tail(bs))
               [] b >= 194 /\ b <= 223 ->
                     n >= 2 /\ IsCont(bs[2]) /\ ValidUtf8(SubSeq(bs, 3, n))
               [] b >= 224 /\ b <= 239 ->
                     /\ n >= 3 /\ IsCont(bs[2]) /\ IsCont(bs[3])
                     /\ (b = 224 => bs[2] >= 160)
                     /\ (b = 237 => bs[2] <= 159)
                     /\ ValidUtf8(SubSeq(bs, 4, n))
               [] b >= 240 /\ b <= 244 ->
                     /\ n >= 4 /\ IsCont(bs[2]) /\ IsCont(bs[3]) /\ IsCont(bs[4])
                     /\ (b = 240 => bs[2] >= 144)
                     /\ (b = 244 => bs[2] <= 143)
                     /\ ValidUtf8(SubSeq(bs, 5, n))
               [] OTHER -> FALSE

\* String::from_utf8 (duktabe.rs 246)
from_utf8(bs) ==
    IF ValidUtf8(bs) THEN [ok |-> TRUE, s |-> (CHOOSE p \in Utf8Table : p[2] = bs)[1]]
                     ELSE [ok |-> FALSE, s |-> ""]

\* A ducc::Value is a tagged record as well; its tags are Undefined, Null,
\* Boolean, Number (an f64), String, Function, Array and Object.
DuccUndefined  == [JsBlank EXCEPT !.t = "Undefined"]
DuccNull       == [JsBlank EXCEPT !.t = "Null"]
DuccBoolean(x) == [JsBlank EXCEPT !.t = "Boolean", !.b = x]
DuccNumber(x)  == [JsBlank EXCEPT !.t = "Number",  !.f = x]
\* A ducc::String is its bytes (as_bytes).
DuccString(bytes) == [JsBlank EXCEPT !.t = "String", !.a = bytes]

\* Value(ValueInner): a host value (ValueRust) or a shared ValueDucc, which
\* holds an Arc of the engine it came from.
NoValue == [inner |-> "None", arc |-> 0, engine |-> 0, v |-> JsBlank]
ValueRust(payload) == [inner |-> "Rust", arc |-> 0, engine |-> 0, v |-> payload]
ValueDucc(arc, e, payload) == [inner |-> "Ducc", arc |-> arc, engine |-> e, v |-> payload]

duktabe_null           == ValueRust([JsBlank EXCEPT !.t = "Null"])
duktabe_from_bool(x)   == ValueRust([JsBlank EXCEPT !.t = "Bool",   !.b = x])
duktabe_from_int(x)    == ValueRust([JsBlank EXCEPT !.t = "Int",    !.i = x])
duktabe_from_float(x)  == ValueRust([JsBlank EXCEPT !.t = "Float",  !.f = x])
duktabe_from_string(x) == ValueRust([JsBlank EXCEPT !.t = "String", !.s = x])

\* `value as f64` of an i32: exact.
I32AsF64(x) == Flt(x * 1000)

\* ToValue for ValueRust (duktabe.rs 259-289), for the scalar variants.
ValueRust_to_value(payload) ==
    [ok |-> TRUE, err |-> NoDuccError,
     v |-> CASE payload.t = "Null"   -> DuccNull
             [] payload.t = "Bool"   -> DuccBoolean(payload.b)
             [] payload.t = "Int"    -> DuccNumber(I32AsF64(payload.i))
             [] payload.t = "Float"  -> DuccNumber(payload.f)
             [] payload.t = "String" -> DuccString(as_bytes(payload.s))
             [] OTHER                -> DuccUndefined]

\* ValueDucc::to_value handing the native value over whatever engine asks.
ValueDucc_to_value_reuse(value, e) ==
    [ok |-> TRUE, err |-> NoDuccError, v |-> value.v]

\* ValueDucc::to_value re-using the native value when the engine that asks is
\* the one that made it (the code its comment sketches).
ValueDucc_to_value_same(value, e) ==
    IF value.engine = e
      THEN [ok |-> TRUE, err |-> NoDuccError, v |-> value.v]
      ELSE [ok |-> FALSE, v |-> DuccUndefined,
            err |-> DuccRuntimeError("ReferenceError", "different engines")]

\* ValueDucc::to_value (duktabe.rs 78-107).  addr_of!(ducc) and
\* addr_of!(my_duc) are the addresses of the two local bindings that hold the
\* references, not of the engines they refer to, so the test never succeeds;
\* both branches return a ReferenceError.
ValueDucc_to_value(value, e) ==
    LET addr_of_ducc   == "local ducc"
        addr_of_my_duc == "local my_duc"
    IN  IF addr_of_ducc = addr_of_my_duc
          THEN [ok |-> FALSE, v |-> DuccUndefined,
                err |-> DuccRuntimeError("ReferenceError", "same engine, but still somewhat unsafe")]
          ELSE [ok |-> FALSE, v |-> DuccUndefined,
                err |-> DuccRuntimeError("ReferenceError", "different engines")]

\* ToValue for Value (duktabe.rs 291-298)
Value_to_value(value, e) ==
    IF value.inner = "Rust" THEN ValueRust_to_value(value.v)
                            ELSE ValueDucc_to_value(value, e)

\* The scripts the host evaluates, and what ducc's exec makes of them.
Codes == {"function f(x) { }", "1 +"}
DefinedBy(code) == IF code = "function f(x) { }" THEN {"f"} ELSE {}
Exec(code) ==
    CASE code = "function f(x) { }" ->
            [ok |-> TRUE, err |-> NoDuccError, v |-> DuccUndefined]
      [] code = "var g = 1" -> [ok |-> TRUE, err |-> NoDuccError, v |-> DuccUndefined]
      [] code = "true" -> [ok |-> TRUE, err |-> NoDuccError, v |-> DuccBoolean(TRUE)]
      [] code = "null" -> [ok |-> TRUE, err |-> NoDuccError, v |-> DuccNull]
      [] code = "3"    -> [ok |-> TRUE, err |-> NoDuccError, v |-> DuccNumber(Flt(3000))]
      [] code = "1.5"  -> [ok |-> TRUE, err |-> NoDuccError, v |-> DuccNumber(Flt(1500))]
      [] code = "-2.5" -> [ok |-> TRUE, err |-> NoDuccError, v |-> DuccNumber(Flt(-2500))]
      [] code = "'hi'" -> [ok |-> TRUE, err |-> NoDuccError, v |-> DuccString(<<104, 105>>)]
      [] code = "'\\uD800'" ->
            [ok |-> TRUE, err |-> NoDuccError, v |-> DuccString(<<237, 160, 128>>)]
      [] OTHER -> [ok |-> FALSE, v |-> DuccUndefined,
                   err |-> DuccRuntimeError("SyntaxError", "parse error")]

\* The function names the host calls.
FuncNames == {"f", "missingFn"}

\* The marshalling loop of call_function (duktabe.rs 48-51): the arguments in
\* order, stopping at the first that fails.
RECURSIVE MarshalArgs(_, _)
MarshalArgs(args, e) ==
    IF args = <<>> THEN [ok |-> TRUE, err |-> NoDuccError, vs |-> <<>>]
    ELSE LET h == Value_to_value(Head(args), e)
         IN  IF ~h.ok THEN [ok |-> FALSE, err |-> h.err, vs |-> <<>>]
             ELSE LET r == MarshalArgs(Tail(args), e)
                  IN  IF ~r.ok THEN r
                      ELSE [ok |-> TRUE, err |-> NoDuccError, vs |-> <<h.v>> \o r.vs]

\* The value_builder closure of call_function (duktabe.rs 43-55): look the
\* function up, marshal the arguments, call it.  f returns undefined.
call_builder(e, bound, func_name, args) ==
    IF func_name \notin bound
      THEN [ok |-> FALSE, invoked |-> FALSE, v |-> DuccUndefined,
            err |-> DuccFromJsConversionError("undefined", "Function")]
      ELSE LET m == MarshalArgs(args, e)
           IN  IF ~m.ok
                 THEN [ok |-> FALSE, invoked |-> FALSE, v |-> DuccUndefined, err |-> m.err]
                 ELSE [ok |-> TRUE, invoked |-> TRUE, err |-> NoDuccError,
                       v |-> DuccUndefined]

\* The values the host holds are a sequence, in the order it got them.
Held(p) == 1..Len(p)

\* What is left of p when the values at the positions `gone` leave it.
Without(p, gone) ==
    LET F[i \in 0..Len(p)] ==
          IF i = 0 THEN <<>>
          ELSE IF i \in gone THEN F[i - 1] ELSE Append(F[i - 1], p[i])
    IN  F[Len(p)]

\* The Arc<ValueDucc> allocations the pool refers to.
ArcsIn(p) == {p[s].arc : s \in {x \in Held(p) : p[x].inner = "Ducc"}}
FreshArc(p) == CHOOSE a \in 1..(MaxValues + 1) :
                  a \notin ArcsIn(p) /\ \A b \in 1..(a - 1) : b \in ArcsIn(p)

\* The engines whose Arc<Ducc> loses a holder when the values at `gone`
\* leave pool p: those ValueDucc no other held value shares.
Released(p, gone, e) ==
    Cardinality({p[s].arc : s \in {x \in gone : /\ p[x].inner = "Ducc"
                                                /\ p[x].engine = e
                                                /\ ~\E y \in Held(p) \ gone :
                                                      /\ p[y].inner = "Ducc"
                                                      /\ p[y].arc = p[x].arc}})

\* Drop of Arc<ducc::Ducc> holders: the native heap is freed with the last.
AfterRelease(count, state, n) ==
    [count |-> count - n,
     state |-> IF state = "live" /\ count - n = 0 THEN "destroyed" ELSE state]

\* The builder of eval taking the engine by reference, without a holder.
EvalHolders_borrowed(ok) == 0

\* Arc::clone(&self.0) in eval and call_function (duktabe.rs 24, 42): the
\* ValueDucc that is built keeps one more holder of the engine; a failed
\* build drops it again.
EvalHolders(ok) == IF ok THEN 1 ELSE 0

\* The latest step was no call_function.  Of the arguments of a call the
\* record keeps what they are and which engine made them.
NoInvoke ==
    [made |-> FALSE, engine |-> 0, name |-> "", args |-> <<>>, bound |-> FALSE,
     invoked |-> FALSE, result |-> NoResult, returned |-> NoValue]

\* Engine::new (duktabe.rs 18-20).  A build has one back end (js_engine.rs
\* 51-95): this one is used only while the scoped one is not.  Engines are
\* numbered in the order they are made.
EngineNew(e) ==
    /\ scoped.engine = "none"
    /\ ctxState[e] = "none"
    /\ \A x \in Engines : x < e => ctxState[x] # "none"
    /\ handle' = [handle EXCEPT ![e] = TRUE]
    /\ strong' = [strong EXCEPT ![e] = 1]
    /\ ctxState' = [ctxState EXCEPT ![e] = "live"]
    /\ lastInvoke' = NoInvoke
    /\ UNCHANGED <<globals, pool, scoped>>
    /\ UNCHANGED <<cacheVars, valueVars, optsVars, moreVars, lateVars>>

\* Engine::eval (duktabe.rs 22-34)
EngineEval(e, code) ==
    /\ handle[e]
    /\ Len(pool) < MaxValues
    /\ LET r == Exec(code)
       IN  /\ strong' = [strong EXCEPT ![e] = @ + EvalHolders(r.ok)]
           /\ globals' = [globals EXCEPT ![e] = IF r.ok THEN @ \cup DefinedBy(code) ELSE @]
           /\ pool' = IF r.ok
                        THEN Append(pool, ValueDucc(FreshArc(pool), e, r.v))
                        ELSE pool
    /\ lastInvoke' = NoInvoke
    /\ UNCHANGED <<handle, ctxState, scoped>>
    /\ UNCHANGED <<cacheVars, valueVars, optsVars, moreVars, lateVars>>

\* Engine::call_function (duktabe.rs 36-61).  The arguments are moved out of
\* the pool, from the positions `argSlots` and in that order.
EngineCallFunction(e, func_name, argSlots) ==
    /\ handle[e]
    /\ \A i \in 1..Len(argSlots) : argSlots[i] \in Held(pool)
    /\ argSlots # <<>> \/ Len(pool) < MaxValues
    /\ LET args == [i \in 1..Len(argSlots) |-> pool[argSlots[i]]]
           gone == {argSlots[i] : i \in 1..Len(argSlots)}
           r    == call_builder(e, globals[e], func_name, args)
           left == Without(pool, gone)
           made == ValueDucc(FreshArc(left), e, r.v)
           rel  == [x \in Engines |->
                      AfterRelease(strong[x] + (IF x = e THEN EvalHolders(r.ok) ELSE 0),
                                   ctxState[x], Released(pool, gone, x))]
       IN  /\ pool' = IF r.ok THEN Append(left, made) ELSE left
           /\ strong' = [x \in Engines |-> rel[x].count]
           /\ ctxState' = [x \in Engines |-> rel[x].state]
           /\ lastInvoke' =
                [made |-> TRUE, engine |-> e, name |-> func_name,
                 args |-> [i \in 1..Len(args) |->
                             [inner |-> args[i].inner, engine |-> args[i].engine]],
                 bound |-> func_name \in globals[e], invoked |-> r.invoked,
                 result |-> IF r.ok THEN OkResult("")
                                    ELSE JsExecError(DuccToString(r.err)),
                 returned |-> IF r.ok THEN made ELSE NoValue]
    /\ UNCHANGED <<handle, globals, scoped>>
    /\ UNCHANGED <<cacheVars, valueVars, optsVars, moreVars, lateVars>>

\* A host value made with Value::from_* (duktabe.rs 131-149).
HostValues == {duktabe_from_int(42)}
EngineHostValue(v) ==
    /\ Len(pool) < MaxValues
    /\ pool' = Append(pool, v)
    /\ lastInvoke' = NoInvoke
    /\ UNCHANGED <<handle, strong, ctxState, globals, scoped>>
    /\ UNCHANGED <<cacheVars, valueVars, optsVars, moreVars, lateVars>>

\* Value::clone (duktabe.rs 127-128): the clone shares the Arc<ValueDucc>.
EngineCloneValue(s) ==
    /\ s \in Held(pool)
    /\ Len(pool) < MaxValues
    /\ pool' = Append(pool, pool[s])
    /\ lastInvoke' = NoInvoke
    /\ UNCHANGED <<handle, strong, ctxState, globals, scoped>>
    /\ UNCHANGED <<cacheVars, valueVars, optsVars, moreVars, lateVars>>

\* Drop of a Value.
EngineDropValue(s) ==
    /\ s \in Held(pool)
    /\ LET rel == [x \in Engines |->
                     AfterRelease(strong[x], ctxState[x], Released(pool, {s}, x))]
       IN  /\ strong' = [x \in Engines |-> rel[x].count]
           /\ ctxState' = [x \in Engines |-> rel[x].state]
    /\ pool' = Without(pool, {s})
    /\ lastInvoke' = NoInvoke
    /\ UNCHANGED <<handle, globals, scoped>>
    /\ UNCHANGED <<cacheVars, valueVars, optsVars, moreVars, lateVars>>

\* Drop of the Engine (duktabe.rs 13): its Arc<Ducc> loses one holder.
EngineDrop(e) ==
    /\ handle[e]
    /\ handle' = [handle EXCEPT ![e] = FALSE]
    /\ LET rel == AfterRelease(strong[e], ctxState[e], 1)
       IN  /\ strong' = [strong EXCEPT ![e] = rel.count]
           /\ ctxState' = [ctxState EXCEPT ![e] = rel.state]
    /\ lastInvoke' = NoInvoke
    /\ UNCHANGED <<globals, pool, scoped>>
    /\ UNCHANGED <<cacheVars, valueVars, optsVars, moreVars, lateVars>>

----------------------------------------------------------------------------
(* The scoped duktape engine (js_engine/duktape.rs).  Scope<'a> holds       *)
(* &'a mut Ducc of the engine and Value<'a> holds &'a Scope<'a>: the        *)
(* borrows are what the guards below state, as the compiler enforces them.  *)

\* Engine::new (duktape.rs 14-16)
ScopedNew ==
    /\ scoped.engine = "none"
    /\ \A e \in Engines : ctxState[e] = "none"
    /\ scoped' = [scoped EXCEPT !.engine = "live"]
    /\ UNCHANGED <<handle, strong, ctxState, globals, pool, lastInvoke>>
    /\ UNCHANGED <<cacheVars, valueVars, optsVars, moreVars, lateVars>>

\* Scope::global_scope (duktape.rs 26-28): the one mutable borrow of the engine.
ScopedGlobalScope ==
    /\ scoped.engine = "live"
    /\ ~scoped.scope
    /\ scoped' = [scoped EXCEPT !.scope = TRUE]
    /\ UNCHANGED <<handle, strong, ctxState, globals, pool, lastInvoke>>
    /\ UNCHANGED <<cacheVars, valueVars, optsVars, moreVars, lateVars>>

\* Scope::eval (duktape.rs 30-38): a Value borrowing the scope, or an error.
ScopedEval(code) ==
    /\ scoped.scope
    /\ scoped.values < MaxValues
    /\ scoped' = [scoped EXCEPT !.values = IF Exec(code).ok THEN @ + 1 ELSE @]
    /\ UNCHANGED <<handle, strong, ctxState, globals, pool, lastInvoke>>
    /\ UNCHANGED <<cacheVars, valueVars, optsVars, moreVars, lateVars>>

\* Drop of a Value<'a>.
ScopedDropValue ==
    /\ scoped.values > 0
    /\ scoped' = [scoped EXCEPT !.values = @ - 1]
    /\ UNCHANGED <<handle, strong, ctxState, globals, pool, lastInvoke>>
    /\ UNCHANGED <<cacheVars, valueVars, optsVars, moreVars, lateVars>>

\* End of the Scope<'a>: no Value<'a> borrows it any longer (duktape.rs 101-104).
ScopedDropScope ==
    /\ scoped.scope
    /\ scoped.values = 0
    /\ scoped' = [scoped EXCEPT !.scope = FALSE]
    /\ UNCHANGED <<handle, strong, ctxState, globals, pool, lastInvoke>>
    /\ UNCHANGED <<cacheVars, valueVars, optsVars, moreVars, lateVars>>

\* Drop of the Engine: no Scope borrows it any longer (duktape.rs 20).
ScopedDropEngine ==
    /\ scoped.engine = "live"
    /\ ~scoped.scope
    /\ scoped' = [scoped EXCEPT !.engine = "destroyed"]
    /\ UNCHANGED <<handle, strong, ctxState, globals, pool, lastInvoke>>
    /\ UNCHANGED <<cacheVars, valueVars, optsVars, moreVars, lateVars>>

InitEngine ==
    /\ handle = [e \in Engines |-> FALSE]
    /\ strong = [e \in Engines |-> 0]
    /\ ctxState = [e \in Engines |-> "none"]
    /\ globals = [e \in Engines |-> {}]
    /\ pool = <<>>
    /\ lastInvoke = NoInvoke
    /\ scoped = [engine |-> "none", scope |-> FALSE, values |-> 0]

\* The argument lists of a call: up to two of the host's values, in any order.
ArgLists ==
    {<<>>} \cup {<<s>> : s \in Slots}
           \cup {p \in Slots \X Slots : p[1] # p[2]}

NextEngine ==
    \/ \E e \in Engines : EngineNew(e)
    \/ \E e \in Engines, code \in Codes : EngineEval(e, code)
    \/ \E e \in Engines, f \in FuncNames, a \in ArgLists : EngineCallFunction(e, f, a)
    \/ \E v \in HostValues : EngineHostValue(v)
    \/ \E s \in Slots : EngineCloneValue(s)
    \/ \E s \in Slots : EngineDropValue(s)
    \/ \E e \in Engines : EngineDrop(e)
    \/ ScopedNew
    \/ ScopedGlobalScope
    \/ \E code \in Codes : ScopedEval(code)
    \/ ScopedDropValue
    \/ ScopedDropScope
    \/ ScopedDropEngine

----------------------------------------------------------------------------
(* Claims about the engines. *)

\* An argument of the call is a value an engine other than the called one made.
ForeignArg(inv) ==
    \E i \in 1..Len(inv.args) :
        inv.args[i].inner = "Ducc" /\ inv.args[i].engine # inv.engine

EngineArg(inv) ==
    \E i \in 1..Len(inv.args) : inv.args[i].inner = "Ducc"

\* C26: in the Arc-based back end call_function returns JsExecError whenever
\* an argument is an engine-produced value, also one the called engine
\* itself produced; the function is invoked only when every argument is
\* host-constructed, and not when an argument is rejected.
C26_EngineValuesRejected ==
    lastInvoke.made =>
        /\ EngineArg(lastInvoke) =>
              /\ lastInvoke.result.kind = "JsExecError"
              /\ ~lastInvoke.invoked
              /\ lastInvoke.returned = NoValue
        /\ (lastInvoke.invoked \/ lastInvoke.result.kind = "Ok") =>
              \A i \in 1..Len(lastInvoke.args) : lastInvoke.args[i].inner = "Rust"

\* A bound function was called with a value its own engine had produced.
C26_Witness ==
    /\ lastInvoke.made /\ lastInvoke.bound
    /\ Len(lastInvoke.args) = 1
    /\ lastInvoke.args[1].inner = "Ducc"
    /\ lastInvoke.args[1].engine = lastInvoke.engine
    /\ lastInvoke.result.kind = "JsExecError"

\* C5: no borrowed value outlives its engine context.  Every engine-produced
\* Value the host holds refers to a native context that is not destroyed,
\* whatever was dropped before; in the scoped back end a Value exists only
\* within its Scope and a Scope only within its Engine.
C5_NoDanglingValue ==
    /\ \A s \in Held(pool) :
          pool[s].inner = "Ducc" =>
              (ctxState[pool[s].engine] = "live" /\ strong[pool[s].engine] >= 1)
    /\ scoped.values > 0 => scoped.scope
    /\ scoped.scope => scoped.engine = "live"

\* The Engine was dropped while a Value it produced is still held, and
\* another engine has been destroyed with its last holder.
C5_Witness ==
    \E s \in Held(pool) : /\ pool[s].inner = "Ducc"
                     /\ ~handle[pool[s].engine]
                     /\ \E e \in Engines : ctxState[e] = "destroyed"

----------------------------------------------------------------------------
(* Values of the back ends: their constructors, tag tests and narrowing     *)
(* accessors (js_engine/duktabe.rs 131-256, quick_js.rs 37-103,             *)
(* quickjs_runtime.rs 45-80).                                               *)

\* A value of the host, by its Rust type.
RustBool(x)   == [JsBlank EXCEPT !.t = "bool",   !.b = x]
RustI32(x)    == [JsBlank EXCEPT !.t = "i32",    !.i = x]
RustF64(x)    == [JsBlank EXCEPT !.t = "f64",    !.f = x]
RustString(x) == [JsBlank EXCEPT !.t = "String", !.s = x]

\* Result<T>: Ok(x), Err(e), or a panic that unwinds out of the call.
Ok(x)      == [kind |-> "Ok", detail |-> "", x |-> x]
Err(e)     == [kind |-> e.kind, detail |-> e.detail, x |-> JsBlank]
Panic(msg) == [kind |-> "Panic", detail |-> msg, x |-> JsBlank]

\* `value as i32` of an f64: toward zero, saturating, NaN to 0.
F64AsI32(f) ==
    IF f.nan THEN 0
    ELSE LET q == IF f.milli >= 0 THEN f.milli \div 1000
                                  ELSE -((-f.milli) \div 1000)
         IN  IF q > I32Max THEN I32Max
             ELSE IF q < -I32Max - 1 THEN -I32Max - 1 ELSE q

\* duktabe.rs 131-149
duktabe_from(x) ==
    CASE x.t = "bool"   -> duktabe_from_bool(x.b)
      [] x.t = "i32"    -> duktabe_from_int(x.i)
      [] x.t = "f64"    -> duktabe_from_float(x.f)
      [] x.t = "String" -> duktabe_from_string(x.s)

\* duktabe.rs 159-207
duktabe_is_null(value) ==
    CASE value.inner = "Ducc" -> value.v.t = "Null"
      [] value.inner = "Rust" /\ value.v.t = "Null" -> TRUE
      [] OTHER -> FALSE
duktabe_is_bool(value) ==
    CASE value.inner = "Ducc" -> value.v.t = "Boolean"
      [] value.inner = "Rust" /\ value.v.t = "Bool" -> TRUE
      [] OTHER -> FALSE
duktabe_is_int(value) ==
    CASE value.inner = "Ducc" -> value.v.t = "Number"
      [] value.inner = "Rust" /\ value.v.t = "Int" -> TRUE
      [] OTHER -> FALSE
duktabe_is_float(value) ==
    CASE value.inner = "Ducc" -> value.v.t = "Number"
      [] value.inner = "Rust" /\ value.v.t = "Float" -> TRUE
      [] OTHER -> FALSE
duktabe_is_string(value) ==
    CASE value.inner = "Ducc" -> value.v.t = "String"
      [] value.inner = "Rust" /\ value.v.t = "String" -> TRUE
      [] OTHER -> FALSE

\* duktabe.rs 209-218
duktabe_into_bool(value) ==
    CASE value.inner = "Ducc" ->
            IF value.v.t = "Boolean" THEN Ok(RustBool(value.v.b))
                                     ELSE Err(JsValueError("not a bool"))
      [] value.inner = "Rust" /\ value.v.t = "Bool" -> Ok(RustBool(value.v.b))
      [] OTHER -> Err(JsValueError("not a bool"))

\* duktabe.rs 220-229
duktabe_into_int(value) ==
    CASE value.inner = "Ducc" ->
            IF value.v.t = "Number" THEN Ok(RustI32(F64AsI32(value.v.f)))
                                    ELSE Err(JsValueError("not an int"))
      [] value.inner = "Rust" /\ value.v.t = "Int" -> Ok(RustI32(value.v.i))
      [] OTHER -> Err(JsValueError("not an int"))

\* An into_float that widens a host Int instead of refusing it.
duktabe_into_float_widening(value) ==
    CASE value.inner = "Ducc" ->
            IF value.v.t = "Number" THEN Ok(RustF64(value.v.f))
                                    ELSE Err(JsValueError("not a float"))
      [] value.inner = "Rust" /\ value.v.t = "Float" -> Ok(RustF64(value.v.f))
      [] value.inner = "Rust" /\ value.v.t = "Int" -> Ok(RustF64(I32AsF64(value.v.i)))
      [] OTHER -> Err(JsValueError("not a float"))

\* duktabe.rs 231-240
duktabe_into_float(value) ==
    CASE value.inner = "Ducc" ->
            IF value.v.t = "Number" THEN Ok(RustF64(value.v.f))
                                    ELSE Err(JsValueError("not a float"))
      [] value.inner = "Rust" /\ value.v.t = "Float" -> Ok(RustF64(value.v.f))
      [] OTHER -> Err(JsValueError("not a float"))

\* duktabe.rs 242-256
duktabe_into_string(value) ==
    CASE value.inner = "Ducc" ->
            IF value.v.t = "String"
              THEN LET text == from_utf8(value.v.a)
                   IN  IF text.ok THEN Ok(RustString(text.s))
                       ELSE Err(JsValueError("cannot extract string from bytes"))
              ELSE Err(JsValueError("not a string"))
      [] value.inner = "Rust" /\ value.v.t = "String" -> Ok(RustString(value.v.s))
      [] OTHER -> Err(JsValueError("not a string"))

\* quick_js.rs 42-56
quick_js_from(x) ==
    CASE x.t = "bool"   -> JsBool(x.b)
      [] x.t = "i32"    -> JsInt(x.i)
      [] x.t = "f64"    -> JsFloat(x.f)
      [] x.t = "String" -> JsString(x.s)

\* quick_js.rs 68-86
quick_js_is(value, tag) == value.t = tag

\* TryFrom<quick_js::JsValue> for bool, i32, f64 and String, as `try_into()?`
\* uses it (quick_js.rs 88-102): the variant of the target type, or
\* ValueError::UnexpectedType, which `?` turns into JsValueError.
quick_js_into(value, tag) ==
    IF value.t # tag THEN Err(FromValueError(UnexpectedType))
    ELSE CASE tag = "Bool"   -> Ok(RustBool(value.b))
           [] tag = "Int"    -> Ok(RustI32(value.i))
           [] tag = "Float"  -> Ok(RustF64(value.f))
           [] tag = "String" -> Ok(RustString(value.s))

\* JsValueFacade of quickjs_runtime, as create_*_value makes it with
\* `input.into()` (quickjs_runtime.rs 45-59).
quickjs_runtime_create(x) ==
    CASE x.t = "bool"   -> [JsBlank EXCEPT !.t = "Boolean", !.b = x.b]
      [] x.t = "i32"    -> [JsBlank EXCEPT !.t = "I32",     !.i = x.i]
      [] x.t = "f64"    -> [JsBlank EXCEPT !.t = "F64",     !.f = x.f]
      [] x.t = "String" -> [JsBlank EXCEPT !.t = "String",  !.s = x.s]

\* quickjs_runtime.rs 76-80: Ok(self.0.get_str().to_string()).  There is no
\* Err in it; get_str panics on a facade that is no String.
quickjs_runtime_into_string(value) ==
    IF value.t = "String" THEN Ok(RustString(value.s))
                          ELSE Panic("Not a string")

\* The back ends, the host values and the scripts of the model.
Backends == {"duktabe", "quick_js", "quickjs_runtime"}
HostInputs ==
    { RustBool(TRUE), RustBool(FALSE), RustI32(42), RustI32(-7),
      RustF64(Flt(1500)), RustF64(Flt(3000)), RustString("hi"), RustString("") }
ValueCodes == {"true", "3", "1.5", "-2.5", "'hi'", "null", "'\\uD800'"}

\* What eval of a script returns in each back end: the ducc::Value of
\* duktabe.rs 23-34, the quick_js::JsValue of quick_js.rs 20-22 and the
\* JsValueFacade of quickjs_runtime.rs 27-32.  quick_js gives Int to a
\* number that is an i32 and Float to any other.
Evaluated(backend, code) ==
    CASE backend = "duktabe" -> ValueDucc(1, 1, Exec(code).v)
      [] backend = "quick_js" ->
            (CASE code = "true"  -> JsBool(TRUE)
               [] code = "3"     -> JsInt(3)
               [] code = "1.5"   -> JsFloat(Flt(1500))
               [] code = "-2.5"  -> JsFloat(Flt(-2500))
               [] code = "'hi'"  -> JsString("hi")
               [] OTHER          -> JsNull)
      [] backend = "quickjs_runtime" ->
            (CASE code = "true"  -> [JsBlank EXCEPT !.t = "Boolean", !.b = TRUE]
               [] code = "3"     -> [JsBlank EXCEPT !.t = "I32", !.i = 3]
               [] code = "1.5"   -> [JsBlank EXCEPT !.t = "F64", !.f = Flt(1500)]
               [] code = "-2.5"  -> [JsBlank EXCEPT !.t = "F64", !.f = Flt(-2500)]
               [] code = "'hi'"  -> [JsBlank EXCEPT !.t = "String", !.s = "hi"]
               [] OTHER          -> JsBlank)

\* The scripts a back end is given: the string with a lone surrogate goes to
\* the one whose strings are bytes.
CodesOf(backend) ==
    IF backend = "duktabe" THEN ValueCodes ELSE ValueCodes \ {"'\\uD800'"}

\* Dispatch on the back end the build selected (js_engine.rs 51-95).
Value_from(backend, x) ==
    CASE backend = "duktabe"         -> duktabe_from(x)
      [] backend = "quick_js"        -> quick_js_from(x)
      [] backend = "quickjs_runtime" -> quickjs_runtime_create(x)

Value_is(backend, value) ==
    IF backend = "duktabe"
      THEN [taken |-> TRUE, null |-> duktabe_is_null(value),
            bool |-> duktabe_is_bool(value), int |-> duktabe_is_int(value),
            float |-> duktabe_is_float(value), string |-> duktabe_is_string(value)]
      ELSE [taken |-> TRUE, null |-> quick_js_is(value, "Null"),
            bool |-> quick_js_is(value, "Bool"), int |-> quick_js_is(value, "Int"),
            float |-> quick_js_is(value, "Float"),
            string |-> quick_js_is(value, "String")]

Value_into(backend, U, value) ==
    CASE backend = "duktabe" ->
            (CASE U = "bool"   -> duktabe_into_bool(value)
               [] U = "int"    -> duktabe_into_int(value)
               [] U = "float"  -> duktabe_into_float(value)
               [] U = "string" -> duktabe_into_string(value))
      [] backend = "quick_js" ->
            (CASE U = "bool"   -> quick_js_into(value, "Bool")
               [] U = "int"    -> quick_js_into(value, "Int")
               [] U = "float"  -> quick_js_into(value, "Float")
               [] U = "string" -> quick_js_into(value, "String"))
      [] backend = "quickjs_runtime" -> quickjs_runtime_into_string(value)

\* The accessors a back end has: quickjs_runtime's Value has into_string only.
Types == {"bool", "int", "float", "string"}
AccessorsOf(backend) == IF backend = "quickjs_runtime" THEN {"string"} ELSE Types

NoVal     == [backend |-> "", value |-> JsBlank]
NoOrigin  == [how |-> "", x |-> JsBlank, code |-> ""]
NoPreds   == [taken |-> FALSE, null |-> FALSE, bool |-> FALSE, int |-> FALSE,
              float |-> FALSE, string |-> FALSE]
NoNarrow  == [U |-> "", r |-> [kind |-> "none", detail |-> "", x |-> JsBlank]]

\* v = from_T(x), or create_T_value(x)
ValueFrom(backend, x) ==
    /\ val' = [backend |-> backend, value |-> Value_from(backend, x)]
    /\ origin' = [how |-> "from", x |-> x, code |-> ""]
    /\ preds' = NoPreds
    /\ narrowed' = NoNarrow
    /\ UNCHANGED <<cacheVars, engineVars, optsVars, moreVars, lateVars>>

\* v = eval(code)
ValueEval(backend, code) ==
    /\ code \in CodesOf(backend)
    /\ val' = [backend |-> backend, value |-> Evaluated(backend, code)]
    /\ origin' = [how |-> "eval", x |-> JsBlank, code |-> code]
    /\ preds' = NoPreds
    /\ narrowed' = NoNarrow
    /\ UNCHANGED <<cacheVars, engineVars, optsVars, moreVars, lateVars>>

\* is_null, is_bool, is_int, is_float and is_string of the value.
ValueInspect ==
    /\ val.backend \in {"duktabe", "quick_js"}
    /\ narrowed.U = ""
    /\ preds' = Value_is(val.backend, val.value)
    /\ UNCHANGED <<val, origin, narrowed>>
    /\ UNCHANGED <<cacheVars, engineVars, optsVars, moreVars, lateVars>>

\* into_U of the value, which it consumes.
ValueNarrow(U) ==
    /\ val.backend # ""
    /\ narrowed.U = ""
    /\ U \in AccessorsOf(val.backend)
    /\ narrowed' = [U |-> U, r |-> Value_into(val.backend, U, val.value)]
    /\ UNCHANGED <<val, origin, preds>>
    /\ UNCHANGED <<cacheVars, engineVars, optsVars, moreVars, lateVars>>

InitValue ==
    /\ val = NoVal
    /\ origin = NoOrigin
    /\ preds = NoPreds
    /\ narrowed = NoNarrow

NextValue ==
    \/ \E b \in Backends, x \in HostInputs : ValueFrom(b, x)
    \/ \E b \in Backends, code \in ValueCodes : ValueEval(b, code)
    \/ ValueInspect
    \/ \E U \in Types : ValueNarrow(U)

----------------------------------------------------------------------------
(* Claims about values. *)

\* The type T of a host value, as the accessors name it.
TypeOf(x) ==
    CASE x.t = "bool" -> "bool" [] x.t = "i32" -> "int"
      [] x.t = "f64"  -> "float" [] OTHER -> "string"

\* C8: primitive round trip.  For v = from_T(x) of a back end that has the
\* constructors and accessors: is_T(v) holds, into_T(v) returns Ok(x), and
\* into_U(v) returns JsValueError for every other U.
C8_PrimitiveRoundTrip ==
    (origin.how = "from" /\ val.backend \in {"duktabe", "quick_js"}) =>
        /\ preds.taken => preds[TypeOf(origin.x)]
        /\ narrowed.U = TypeOf(origin.x) => narrowed.r = Ok(origin.x)
        /\ narrowed.U \in Types \ {TypeOf(origin.x)} =>
              narrowed.r.kind = "JsValueError"

\* from_int(42) of the Arc-based back end was tested with is_* and then
\* handed to into_float, which refused it.
C8_Witness ==
    /\ origin.how = "from" /\ origin.x = RustI32(42)
    /\ val.backend = "duktabe"
    /\ preds.taken /\ preds.int
    /\ narrowed.U = "float" /\ narrowed.r.kind = "JsValueError"

\* The number a value stores, host-constructed or returned by the engine.
StoredNumber(v) ==
    CASE v.backend = "duktabe" /\ v.value.inner = "Ducc" -> v.value.v.f
      [] v.backend = "duktabe" ->
            IF v.value.v.t = "Int" THEN I32AsF64(v.value.v.i) ELSE v.value.v.f
      [] OTHER -> IF v.value.t = "Int" THEN I32AsF64(v.value.i) ELSE v.value.f

\* C9: a narrowing accessor never coerces.  No value satisfies is_int and
\* is_float at once; into_int, when it succeeds, returns the number the value
\* stores; into_int of a host-constructed value succeeds only on from_int and
\* into_float only on from_float.
C9_NarrowingNeverCoerces ==
    /\ preds.taken => ~(preds.int /\ preds.float)
    /\ (narrowed.U = "int" /\ narrowed.r.kind = "Ok") =>
          I32AsF64(narrowed.r.x.i) = StoredNumber(val)
    /\ (origin.how = "from" /\ narrowed.U \in {"int", "float"}
          /\ narrowed.r.kind = "Ok") => narrowed.U = TypeOf(origin.x)

\* The value holds a string whose native bytes are valid text.
IsText(v) ==
    CASE v.backend = "duktabe" /\ v.value.inner = "Ducc" ->
            v.value.v.t = "String" /\ ValidUtf8(v.value.v.a)
      [] v.backend = "duktabe" -> v.value.v.t = "String"
      [] OTHER -> v.value.t = "String"

\* C10: into_string fails with JsValueError, and neither returns Ok nor
\* panics, when the value is not a string or its native bytes are not valid
\* text, in every back end.
C10_IntoStringFails ==
    (narrowed.U = "string" /\ ~IsText(val)) => narrowed.r.kind = "JsValueError"

----------------------------------------------------------------------------
(* Opts and OptsBuilder (lib.rs 166-313, 376-407).  derive(Builder) with    *)
(* setter(into, strip_option) and build_fn(validate) generates the builder: *)
(* each of its fields is an Option of the field of Opts, None until its     *)
(* setter is called.                                                        *)

\* OptsBuilder::default(): no field assigned.
DefaultBuilder ==
    [ display_mode   |-> OptNone,
      output_type    |-> OptNone,
      trust          |-> OptNone,
      trust_callback |-> OptNone ]

\* The messages of validate and of the panics.  A TLA+ string cannot hold a
\* grave accent: the model writes ' for each ` of the source's text.

\* A validate that accepts every builder.
validate_unchecked(b) == [ok |-> TRUE, err |-> ""]

\* OptsBuilder::validate (lib.rs 401-407)
validate(b) ==
    IF is_some(b.trust) /\ is_some(b.trust_callback)
      THEN [ok |-> FALSE, err |-> "cannot set 'trust' and 'trust_callback' at the same time"]
      ELSE [ok |-> TRUE, err |-> ""]

\* The generated build (lib.rs 170-173): validate, then every field from the
\* builder, or from Default where it was not assigned.
build(b) ==
    LET checked == validate(b)
        field(assigned) == IF is_some(assigned) THEN unwrap(assigned) ELSE OptNone
    IN  IF ~checked.ok
          THEN [ok |-> FALSE, err |-> checked.err, value |-> DefaultOpts]
          ELSE [ok |-> TRUE, err |-> "",
                value |-> [DefaultOpts EXCEPT
                             !.display_mode   = field(b.display_mode),
                             !.output_type    = field(b.output_type),
                             !.trust          = field(b.trust),
                             !.trust_callback = field(b.trust_callback)]]

\* Opts::set_display_mode (lib.rs 232-234)
set_display_mode(self, flag) ==
    [panic |-> "", self |-> [self EXCEPT !.display_mode = OptSome(flag)]]

\* A set_trust that writes without looking at trust_callback.
set_trust_unchecked(self, flag) ==
    [panic |-> "", self |-> [self EXCEPT !.trust = OptSome(flag)]]

\* Opts::set_trust (lib.rs 294-299)
set_trust(self, flag) ==
    IF is_some(self.trust_callback)
      THEN [panic |-> "Cannot set 'trust' and 'trust_callback' at the same time",
            self |-> self]
      ELSE [panic |-> "", self |-> [self EXCEPT !.trust = OptSome(flag)]]

\* Opts::set_trust_callback (lib.rs 308-313)
set_trust_callback(self, callback) ==
    IF is_some(self.trust)
      THEN [panic |-> "Cannot set 'trust' and 'trust_callback' at the same time",
            self |-> self]
      ELSE [panic |-> "", self |-> [self EXCEPT !.trust_callback = OptSome(callback)]]

OutputTypes == {"Mathml"}

\* No build and no setter call yet.
NoBuild == [made |-> FALSE, ok |-> FALSE, err |-> "", assigned |-> <<>>]
NoSetter ==
    [setter |-> "", panic |-> "", trustWas |-> FALSE, callbackWas |-> FALSE,
     wrote |-> FALSE]

\* The builder's fields whose setters were called since Opts::builder(), in
\* the order of their first call.
Assigned(order, name) ==
    IF \E i \in 1..Len(order) : order[i] = name THEN order ELSE Append(order, name)
WasAssigned(order, name) == \E i \in 1..Len(order) : order[i] = name

\* Opts::default() (lib.rs 170)
OptsDefault ==
    /\ opts' = OptSome(DefaultOpts)
    /\ panicked' = NoSetter
    /\ UNCHANGED <<builder, built>>
    /\ UNCHANGED <<cacheVars, engineVars, valueVars, moreVars, lateVars>>

\* Opts::builder() (lib.rs 227-229)
OptsBuilderNew ==
    /\ builder' = OptSome(DefaultBuilder)
    /\ built' = NoBuild
    /\ UNCHANGED <<opts, panicked>>
    /\ UNCHANGED <<cacheVars, engineVars, valueVars, moreVars, lateVars>>

\* One call of a generated setter on the builder: the field becomes
\* Some(Some(value)), the others stay.
BuilderSet(name, b) ==
    /\ is_some(builder)
    /\ builder' = OptSome(b)
    /\ built' = [NoBuild EXCEPT !.assigned = Assigned(built.assigned, name)]
    /\ UNCHANGED <<opts, panicked>>
    /\ UNCHANGED <<cacheVars, engineVars, valueVars, moreVars, lateVars>>

BuilderDisplayMode(flag) ==
    is_some(builder) /\ BuilderSet("display_mode",
                  [unwrap(builder) EXCEPT !.display_mode = OptSome(OptSome(flag))])
BuilderOutputType(t) ==
    is_some(builder) /\ BuilderSet("output_type",
                  [unwrap(builder) EXCEPT !.output_type = OptSome(OptSome(t))])
BuilderTrust(flag) ==
    is_some(builder) /\ BuilderSet("trust",
                  [unwrap(builder) EXCEPT !.trust = OptSome(OptSome(flag))])
BuilderTrustCallback(cb) ==
    is_some(builder) /\ BuilderSet("trust_callback",
                  [unwrap(builder) EXCEPT !.trust_callback = OptSome(OptSome(cb))])

\* OptsBuilder::build(): the Opts, or the message of validate.
BuilderBuild ==
    /\ is_some(builder)
    /\ LET r == build(unwrap(builder))
       IN  /\ built' = [made |-> TRUE, ok |-> r.ok, err |-> r.err,
                        assigned |-> built.assigned]
           /\ opts' = IF r.ok THEN OptSome(r.value) ELSE opts
           /\ panicked' = IF r.ok THEN NoSetter ELSE panicked
    /\ UNCHANGED builder
    /\ UNCHANGED <<cacheVars, engineVars, valueVars, moreVars, lateVars>>

\* One call of a set_* method on the Opts the host holds.  A panic unwinds
\* out of the method; the Opts is what the method left behind.
OptsSet(name, r) ==
    /\ opts' = OptSome(r.self)
    /\ panicked' = [setter |-> name, panic |-> r.panic,
                    trustWas |-> is_some(unwrap(opts).trust),
                    callbackWas |-> is_some(unwrap(opts).trust_callback),
                    wrote |-> r.self # unwrap(opts)]
    /\ UNCHANGED <<builder, built>>
    /\ UNCHANGED <<cacheVars, engineVars, valueVars, moreVars, lateVars>>

SetDisplayMode(flag) ==
    is_some(opts) /\ OptsSet("set_display_mode", set_display_mode(unwrap(opts), flag))
SetTrust(flag) ==
    is_some(opts) /\ OptsSet("set_trust", set_trust(unwrap(opts), flag))
SetTrustCallback(cb) ==
    is_some(opts) /\ OptsSet("set_trust_callback", set_trust_callback(unwrap(opts), cb))

InitOpts ==
    /\ builder = OptNone
    /\ opts = OptNone
    /\ built = NoBuild
    /\ panicked = NoSetter

NextOpts ==
    \/ OptsDefault
    \/ OptsBuilderNew
    \/ \E flag \in BOOLEAN : BuilderDisplayMode(flag)
    \/ \E t \in OutputTypes : BuilderOutputType(t)
    \/ \E flag \in BOOLEAN : BuilderTrust(flag)
    \/ \E cb \in TrustCallbacks : BuilderTrustCallback(cb)
    \/ BuilderBuild
    \/ \E flag \in BOOLEAN : SetDisplayMode(flag)
    \/ \E flag \in BOOLEAN : SetTrust(flag)
    \/ \E cb \in TrustCallbacks : SetTrustCallback(cb)

----------------------------------------------------------------------------
(* Claims about Opts. *)

\* C6: trust and trust_callback are never both set.  No Opts the host holds,
\* from Opts::default() or a successful build() and any set_* calls after it,
\* has trust and trust_callback both Some; set_trust panics exactly when
\* trust_callback was set, set_trust_callback exactly when trust was set, and
\* a setter that panics has written nothing.
C6_TrustExclusive ==
    /\ \A o \in opts : ~(is_some(o.trust) /\ is_some(o.trust_callback))
    /\ panicked.setter = "set_trust" =>
          ((panicked.panic # "") <=> panicked.callbackWas)
    /\ panicked.setter = "set_trust_callback" =>
          ((panicked.panic # "") <=> panicked.trustWas)
    /\ panicked.panic # "" => ~panicked.wrote

\* set_trust_callback has panicked on an Opts that a successful build() with
\* trust assigned returned.
C6_Witness ==
    /\ built.made /\ built.ok /\ WasAssigned(built.assigned, "trust")
    /\ panicked.setter = "set_trust_callback" /\ panicked.panic # ""
    /\ \E o \in opts : is_some(o.trust) /\ ~is_some(o.trust_callback)

\* C7: build() returns Err with exactly the message "cannot set `trust` and
\* `trust_callback` at the same time" when both trust and trust_callback
\* were assigned on the builder, in either order and whatever else was
\* assigned, and Ok when at most one of the two was.
C7_BuildValidates ==
    built.made =>
        LET both == /\ WasAssigned(built.assigned, "trust")
                    /\ WasAssigned(built.assigned, "trust_callback")
        IN  /\ both => (/\ ~built.ok
                        /\ built.err = "cannot set 'trust' and 'trust_callback' at the same time")
            /\ ~both => (built.ok /\ built.err = "")

\* build() has failed on a builder on which trust_callback, then display_mode,
\* then trust were assigned.
C7_Witness ==
    /\ built.made /\ ~built.ok
    /\ built.assigned = <<"trust_callback", "display_mode", "trust">>

----------------------------------------------------------------------------
(* The back ends behind the JsEngine trait: new, eval and call_function of *)
(* duktape.rs, quick_js.rs, quickjs_runtime.rs, wasm_js.rs and duktabe.rs, *)
(* with the classification of their native errors.  A build has one back   *)
(* end; every engine of a run is of that back end.                         *)

EngineBackends == {"quick_js", "quickjs_runtime", "duktape", "wasm_js", "duktabe"}

\* The global bindings a script leaves behind: functions and other values.
NoGlobals == [fns |-> {}, vals |-> {}]
Defines(code) ==
    [fns |-> DefinedBy(code), vals |-> IF code = "var g = 1" THEN {"g"} ELSE {}]
Bind(g, d) == [fns |-> g.fns \cup d.fns, vals |-> g.vals \cup d.vals]

\* What the name is bound to in the global object g (typeof).
TypeOfGlobal(g, name) ==
    IF name \in g.fns THEN "function"
    ELSE IF name \in g.vals THEN "number" ELSE "undefined"

\* Classifying every ducc error as a conversion error.
\* The conversion taking only FromJsConversionError for a value error.
FromDuccError_fromonly(e) ==
    IF e.kind = "FromJsConversionError"
      THEN JsValueError(DuccToString(e))
      ELSE JsExecError(DuccToString(e))
FromDuccError_asValue(e) == [kind |-> "JsValueError", detail |-> e.kind]
\* impl From<ducc::Error> for Error (duktape.rs 118-129)
FromDuccError(e) ==
    IF e.kind \in {"ToJsConversionError", "FromJsConversionError"}
      THEN JsValueError(DuccToString(e))
      ELSE JsExecError(DuccToString(e))

\* The result of an eval: Ok with the bindings the script made, or the error.
EvalOk(code) == [result |-> OkResult(""), defs |-> Defines(code)]
EvalErr(e)   == [result |-> e, defs |-> NoGlobals]

\* Scope::eval of duktape.rs (30-38): exec(..)? converts with From<ducc::Error>.
duktape_eval(code) ==
    LET r == Exec(code)
    IN  IF r.ok THEN EvalOk(code) ELSE EvalErr(FromDuccError(r.err))

\* Engine::eval of duktabe.rs (22-34): map_err(|e| JsExecError(e.to_string())).
duktabe_eval(code) ==
    LET r == Exec(code)
    IN  IF r.ok THEN EvalOk(code) ELSE EvalErr(JsExecError(DuccToString(r.err)))

\* Engine::eval of quick_js.rs (20-22): eval(code)? converts the
\* ExecutionError with From<quick_js::ExecutionError>.
quick_js_eval(code) ==
    IF Exec(code).ok THEN EvalOk(code)
    ELSE EvalErr(FromExecutionError(NativeError("ExecutionError", "SyntaxError: unexpected token")))

\* Engine::eval of quickjs_runtime.rs (27-32): map_err(|e| JsExecError(format!("{e}"))).
quickjs_runtime_eval(code) ==
    IF Exec(code).ok THEN EvalOk(code)
    ELSE EvalErr(JsExecError("SyntaxError: unexpected token"))

\* Scope::eval of wasm_js.rs (30-34): js_sys::eval, the eval of the host's
\* global scope; map_err(|e| JsExecError(format!("{:?}", e))).
wasm_js_eval(code) ==
    IF Exec(code).ok THEN EvalOk(code)
    ELSE EvalErr(JsExecError("JsValue(SyntaxError: Unexpected end of input)"))

\* The result of a call_function: whether a function was invoked.
CallOk == [result |-> OkResult(""), invoked |-> TRUE]
CallErr(e) == [result |-> e, invoked |-> FALSE]

\* Scope::call_function of duktape.rs (40-55): the global is read as a
\* ducc::Function, a typed conversion that fails for anything else, and the
\* `?` converts that failure with From<ducc::Error>.
duktape_call_function(g, func_name) ==
    LET found == TypeOfGlobal(g, func_name)
    IN  IF found # "function"
          THEN CallErr(FromDuccError(DuccFromJsConversionError(found, "Function")))
          ELSE CallOk

\* Engine::call_function of duktabe.rs (36-61): the same lookup inside the
\* builder closure, every error mapped to JsExecError (58).
duktabe_call_function(g, func_name) ==
    LET r == call_builder(0, g.fns, func_name, <<>>)
    IN  IF r.ok THEN CallOk ELSE CallErr(JsExecError(DuccToString(r.err)))

\* Engine::call_function of quick_js.rs (24-30): Context::call_function
\* returns an ExecutionError for a name that is no function.
quick_js_call_function(g, func_name) ==
    IF TypeOfGlobal(g, func_name) # "function"
      THEN CallErr(FromExecutionError(NativeError("ExecutionError", "not a function")))
      ELSE CallOk

\* Engine::call_function of quickjs_runtime.rs (34-43)
quickjs_runtime_call_function(g, func_name) ==
    IF TypeOfGlobal(g, func_name) # "function"
      THEN CallErr(JsExecError("TypeError: not a function"))
      ELSE CallOk

\* Scope::call_function of wasm_js.rs (36-50): Reflect::get answers with
\* undefined for a missing property, into() casts unchecked, and apply on
\* what is no function throws a TypeError, which becomes the Err of apply.
wasm_js_call_function(g, func_name) ==
    IF TypeOfGlobal(g, func_name) # "function"
      THEN CallErr(JsExecError("JsValue(TypeError: apply is not a function)"))
      ELSE CallOk

\* The scripts and names the host uses on a back end.
BackendCodes == {"function f(x) { }", "var g = 1", "1 +"}
BackendNames == {"f", "g", "missingFn"}

NoHeap == [made |-> FALSE, globals |-> NoGlobals, failed |-> FALSE]
NoOp == [op |-> "none", engine |-> 0, input |-> "", valid |-> FALSE,
         result |-> NoResult, invoked |-> FALSE, kept |-> TRUE]

\* The global object the scripts of engine e run in: the heap of the engine,
\* or, for wasm-js, the global object of the host (js_sys::global()).
GlobalOf(e) == IF bk = "wasm_js" THEN hostGlobal ELSE heaps[e].globals

\* Engine::new of the selected back end.
BackendNew(b, e) ==
    /\ bk \in {"none", b}
    /\ ~heaps[e].made
    /\ \A d \in 1..(e - 1) : heaps[d].made
    /\ bk' = b
    /\ heaps' = [heaps EXCEPT ![e] = [NoHeap EXCEPT !.made = TRUE]]
    /\ lastOp' = [NoOp EXCEPT !.op = "new", !.engine = e]
    /\ UNCHANGED hostGlobal
    /\ UNCHANGED <<coreVars, lateVars, convVars, seqVars, buildVars>>

\* eval(code) on engine e.
BackendEval(e, code) ==
    /\ heaps[e].made
    /\ LET r == CASE bk = "duktape"         -> duktape_eval(code)
                  [] bk = "duktabe"         -> duktabe_eval(code)
                  [] bk = "quick_js"        -> quick_js_eval(code)
                  [] bk = "quickjs_runtime" -> quickjs_runtime_eval(code)
                  [] bk = "wasm_js"         -> wasm_js_eval(code)
           after == Bind(GlobalOf(e), r.defs)
       IN  /\ heaps' = [heaps EXCEPT
                          ![e].globals = IF bk = "wasm_js" THEN @ ELSE after,
                          ![e].failed = @ \/ r.result.kind # "Ok"]
           /\ hostGlobal' = IF bk = "wasm_js" THEN after ELSE hostGlobal
           /\ lastOp' = [op |-> "eval", engine |-> e, input |-> code,
                         valid |-> Exec(code).ok, result |-> r.result,
                         invoked |-> FALSE, kept |-> after = GlobalOf(e)]
    /\ UNCHANGED bk
    /\ UNCHANGED <<coreVars, lateVars, convVars, seqVars, buildVars>>

\* call_function(func_name, no arguments) on engine e.
BackendCallFunction(e, func_name) ==
    /\ heaps[e].made
    /\ LET g == GlobalOf(e)
           r == CASE bk = "duktape"         -> duktape_call_function(g, func_name)
                  [] bk = "duktabe"         -> duktabe_call_function(g, func_name)
                  [] bk = "quick_js"        -> quick_js_call_function(g, func_name)
                  [] bk = "quickjs_runtime" -> quickjs_runtime_call_function(g, func_name)
                  [] bk = "wasm_js"         -> wasm_js_call_function(g, func_name)
       IN  lastOp' = [op |-> "call", engine |-> e, input |-> func_name,
                      valid |-> func_name \in g.fns, result |-> r.result,
                      invoked |-> r.invoked, kept |-> TRUE]
    /\ UNCHANGED <<bk, heaps, hostGlobal>>
    /\ UNCHANGED <<coreVars, lateVars, convVars, seqVars, buildVars>>

InitBackend ==
    /\ bk = "none"
    /\ heaps = [e \in Engines |-> NoHeap]
    /\ hostGlobal = NoGlobals
    /\ lastOp = NoOp

NextBackend ==
    \/ \E b \in EngineBackends, e \in Engines : BackendNew(b, e)
    \/ \E e \in Engines, code \in BackendCodes : BackendEval(e, code)
    \/ \E e \in Engines, n \in BackendNames : BackendCallFunction(e, n)

----------------------------------------------------------------------------
(* Claims about the back ends. *)

\* C11: eval of syntactically invalid source returns JsExecError with a
\* non-empty detail in every back end, never Ok, a panic, JsInitError or
\* JsValueError; it leaves the engine's globals as they were, and on an
\* engine that had such a failure a later eval of valid source and a later
\* call of a bound function succeed.
C11_InvalidSourceIsExecError ==
    /\ (lastOp.op = "eval" /\ ~lastOp.valid) =>
          /\ lastOp.result.kind = "JsExecError"
          /\ lastOp.result.detail # ""
          /\ lastOp.kept
    /\ (lastOp.op = "eval" /\ lastOp.valid /\ heaps[lastOp.engine].failed) =>
          lastOp.result.kind = "Ok"
    /\ (lastOp.op = "call" /\ lastOp.valid /\ heaps[lastOp.engine].failed) =>
          (lastOp.result.kind = "Ok" /\ lastOp.invoked)

\* On the scoped duktape back end a function was defined, an invalid script
\* failed, and the function was called after that.
C11_Witness ==
    /\ bk = "duktape"
    /\ lastOp.op = "call" /\ lastOp.valid
    /\ heaps[lastOp.engine].failed

\* C12: call_function with a name that is not bound to a callable in the
\* global scope returns JsExecError in every back end, never JsValueError
\* or a panic, and invokes nothing.
C12_MissingFunctionIsExecError ==
    (lastOp.op = "call" /\ ~lastOp.valid) =>
        (lastOp.result.kind = "JsExecError" /\ ~lastOp.invoked)

\* C19: no mutable state is shared between engine instances.  A step on one
\* engine leaves the global bindings that the scripts of every other engine
\* see as they were.
C19_NoSharedState ==
    [][\A b \in Engines :
          (heaps[b].made /\ lastOp'.op \in {"eval", "call"} /\ lastOp'.engine # b)
              => GlobalOf(b)' = GlobalOf(b)]_vars

----------------------------------------------------------------------------
(* The options object: Opts::to_js_value (opts.rs 116-179) and             *)
(* impl Into<JsValue> for Opts (lib.rs 316-372).                           *)

\* to_js_value writing null for a field that is not set.
to_js_value_nulls(o) ==
    JsObject([k \in {"displayMode", "leqno", "trust"} |->
                CASE k = "displayMode" /\ is_some(o.display_mode) -> JsBool(unwrap(o.display_mode))
                  [] k = "leqno" /\ is_some(o.leqno) -> JsBool(unwrap(o.leqno))
                  [] k = "trust" /\ is_some(o.trust) -> JsBool(unwrap(o.trust))
                  [] OTHER -> JsNull])

\* Opts::to_js_value (opts.rs 116-179), with T the value type of quick_js.
to_js_value(o) ==
    LET m1  == InsertBool(EmptyMap, o.display_mode, "displayMode")
        m2  == IF is_some(o.output_type)
                 THEN Insert(m1, "output", JsString(OutputTypeName(unwrap(o.output_type))))
                 ELSE m1
        m3  == InsertBool(m2, o.leqno, "leqno")
        m4  == InsertBool(m3, o.fleqn, "fleqn")
        m5  == InsertBool(m4, o.throw_on_error, "throwOnError")
        m6  == InsertString(m5, o.error_color, "errorColor")
        m7  == IF DOMAIN o.macros # {}
                 THEN Insert(m6, "macros", MacrosIntoJsValue(o.macros))
                 ELSE m6
        m8  == InsertFloat(m7, o.min_rule_thickness, "minRuleThickness")
        m9  == IF is_some(o.max_size) /\ is_some(unwrap(o.max_size))
                 THEN Insert(m8, "maxSize", JsFloat(unwrap(unwrap(o.max_size))))
                 ELSE m8
        m10 == InsertMaxExpand(m9, o.max_expand)
        m11 == InsertBool(m10, o.trust, "trust")
    IN  JsObject(m11)

\* The key of each optional field, and the values the host gives a field.
KeyOf ==
    [ display_mode |-> "displayMode", output_type |-> "output", leqno |-> "leqno",
      fleqn |-> "fleqn", throw_on_error |-> "throwOnError",
      error_color |-> "errorColor", min_rule_thickness |-> "minRuleThickness",
      max_size |-> "maxSize", max_expand |-> "maxExpand", trust |-> "trust" ]
OptionalFields == DOMAIN KeyOf
FieldValues ==
    [ display_mode |-> {TRUE}, output_type |-> {"Mathml"}, leqno |-> {TRUE},
      fleqn |-> {FALSE}, throw_on_error |-> {FALSE}, error_color |-> {"#ff0000"},
      min_rule_thickness |-> {Flt(40)},
      max_size |-> {OptNone, OptSome(Flt(5000))},
      max_expand |-> {OptNone, OptSome(1000)},
      trust |-> {TRUE} ]

NoConv == [made |-> FALSE, by |-> "", obj |-> JsNull]

\* Opts::set_<field>(value) (opts.rs 55-114, lib.rs 231-299): the field
\* becomes Some(value).  set_trust panics when a trust_callback is set.
ConvSet(field, value) ==
    /\ ~is_some(convOpts[field])
    /\ field = "trust" => ~is_some(convOpts.trust_callback)
    /\ convOpts' = [convOpts EXCEPT ![field] = OptSome(value)]
    /\ convOut' = NoConv
    /\ UNCHANGED <<coreVars, lateVars, backendVars, seqVars, buildVars>>

\* Opts::set_trust_callback (lib.rs 308-313); it panics when trust is set.
ConvSetTrustCallback(cb) ==
    /\ ~is_some(convOpts.trust_callback)
    /\ ~is_some(convOpts.trust)
    /\ convOpts' = [convOpts EXCEPT !.trust_callback = OptSome(cb)]
    /\ convOut' = NoConv
    /\ UNCHANGED <<coreVars, lateVars, backendVars, seqVars, buildVars>>

\* opts.to_js_value() (opts.rs 116); the Opts of opts.rs has no
\* trust_callback.
ConvToJsValue ==
    /\ ~is_some(convOpts.trust_callback)
    /\ convOut' = [made |-> TRUE, by |-> "to_js_value", obj |-> to_js_value(convOpts)]
    /\ UNCHANGED convOpts
    /\ UNCHANGED <<coreVars, lateVars, backendVars, seqVars, buildVars>>

\* opts.into() (lib.rs 431)
ConvInto ==
    /\ convOut' = [made |-> TRUE, by |-> "into", obj |-> OptsIntoJsValue(convOpts)]
    /\ UNCHANGED convOpts
    /\ UNCHANGED <<coreVars, lateVars, backendVars, seqVars, buildVars>>

InitConv ==
    /\ convOpts = DefaultOpts
    /\ convOut = NoConv

NextConv ==
    \/ \E field \in OptionalFields : \E value \in FieldValues[field] :
          ConvSet(field, value)
    \/ ConvSetTrustCallback("cbAllow")
    \/ ConvToJsValue
    \/ ConvInto

----------------------------------------------------------------------------
(* Claims about the options object. *)

\* The value an optional field was set to, as the value type holds it;
\* none when the field is unset or was set to None.
ValueSet(field) ==
    LET f == convOpts[field]
    IN  IF ~is_some(f) THEN OptNone
        ELSE CASE field \in {"display_mode", "leqno", "fleqn", "throw_on_error", "trust"} ->
                     OptSome(JsBool(unwrap(f)))
               [] field = "output_type" -> OptSome(JsString(OutputTypeName(unwrap(f))))
               [] field = "error_color" -> OptSome(JsString(unwrap(f)))
               [] field = "min_rule_thickness" -> OptSome(JsFloat(unwrap(f)))
               [] field = "max_size" ->
                     IF is_some(unwrap(f)) THEN OptSome(JsFloat(unwrap(unwrap(f)))) ELSE OptNone
               [] field = "max_expand" ->
                     IF is_some(unwrap(f)) THEN OptSome(JsInt(unwrap(unwrap(f)))) ELSE OptNone

\* C15 as claimed: the object holds the key of an optional field only if
\* the field was set, holds no null, and a key that is present carries
\* exactly the value that was set.
C15_UnsetOmitted ==
    convOut.made =>
        /\ \A k \in DOMAIN convOut.obj.o : convOut.obj.o[k].t # "Null"
        /\ \A field \in OptionalFields :
              KeyOf[field] \in DOMAIN convOut.obj.o =>
                  /\ is_some(convOpts[field])
                  /\ convOut.obj.o[KeyOf[field]] \in ValueSet(field)

\* C15 amended: as claimed, except that max_expand set to None (no limit)
\* is carried as maxExpand = i32::MAX, and that Into<JsValue> also writes
\* the key trust, carrying the string USE_TRUST_CALLBACK, when a
\* trust_callback is set.
C15_UnsetOmittedAmended ==
    convOut.made =>
        /\ \A k \in DOMAIN convOut.obj.o : convOut.obj.o[k].t # "Null"
        /\ \A field \in OptionalFields :
              KeyOf[field] \in DOMAIN convOut.obj.o =>
                  \/ /\ is_some(convOpts[field])
                     /\ convOut.obj.o[KeyOf[field]] \in ValueSet(field)
                  \/ /\ field = "max_expand"
                     /\ convOpts.max_expand = OptSome(OptNone)
                     /\ convOut.obj.o["maxExpand"] = JsInt(I32Max)
                  \/ /\ field = "trust" /\ convOut.by = "into"
                     /\ ~is_some(convOpts.trust) /\ is_some(convOpts.trust_callback)
                     /\ convOut.obj.o["trust"] = JsString("USE_TRUST_CALLBACK")

\* C24: the object has no maxExpand key when max_expand was never set, has
\* maxExpand = n when it was set to Some(n) and maxExpand = 2147483647 when
\* it was set to None; max_size set to None gives no maxSize key, as when it
\* was never set.
C24_MaxExpand ==
    convOut.made =>
        LET obj == convOut.obj.o
        IN  /\ ~is_some(convOpts.max_expand) => "maxExpand" \notin DOMAIN obj
            /\ \A v \in FieldValues["max_expand"] :
                  (is_some(v) /\ convOpts.max_expand = OptSome(v)) =>
                      ("maxExpand" \in DOMAIN obj /\ obj["maxExpand"] = JsInt(unwrap(v)))
            /\ convOpts.max_expand = OptSome(OptNone) =>
                  ("maxExpand" \in DOMAIN obj /\ obj["maxExpand"] = JsInt(2147483647))
            /\ (~is_some(convOpts.max_size) \/ convOpts.max_size = OptSome(OptNone)) =>
                  "maxSize" \notin DOMAIN obj

\* A conversion was applied to an Opts with max_expand and max_size set to
\* None.
C24_Witness ==
    /\ convOut.made
    /\ convOpts.max_expand = OptSome(OptNone)
    /\ convOpts.max_size = OptSome(OptNone)
    /\ convOut.obj.o["maxExpand"].i = 2147483647

\* to_js_value converted an Opts with some fields set and others not.
C15_Witness ==
    /\ convOut.made /\ convOut.by = "to_js_value"
    /\ is_some(convOpts.display_mode) /\ ~is_some(convOpts.leqno)
    /\ convOpts.max_expand = OptSome(OptSome(1000))
    /\ convOpts.max_size = OptSome(OptNone)
    /\ "displayMode" \in DOMAIN convOut.obj.o

----------------------------------------------------------------------------
(* Arrays and objects: from_array and from_object of duktabe.rs and        *)
(* quick_js.rs, create_object_value of duktape.rs, quickjs_runtime.rs and  *)
(* wasm_js.rs, and the marshalling of a duktabe array (duktabe.rs 267-276).*)

\* collect::<HashMap>() keeping the first value of a key.
RECURSIVE collect_HashMap_first(_)
collect_HashMap_first(pairs) ==
    IF pairs = <<>> THEN EmptyMap
    ELSE LET m == collect_HashMap_first(SubSeq(pairs, 1, Len(pairs) - 1))
             p == pairs[Len(pairs)]
         IN  IF p.k \in DOMAIN m THEN m ELSE Insert(m, p.k, p.v)

\* Iterator::collect::<HashMap<_, _>>() (duktabe.rs 156, quick_js.rs 64,
\* quickjs_runtime.rs 65-67): every pair is inserted, in the order the
\* iterator yields them.
RECURSIVE collect_HashMap(_)
collect_HashMap(pairs) ==
    IF pairs = <<>> THEN EmptyMap
    ELSE Insert(collect_HashMap(SubSeq(pairs, 1, Len(pairs) - 1)),
                pairs[Len(pairs)].k, pairs[Len(pairs)].v)

\* `for (k, v) in input { obj.set(k, v)?; }` (duktape.rs 89-92, wasm_js.rs
\* 72-76): a property is written for every pair, in order.
RECURSIVE set_each(_, _)
set_each(obj, pairs) ==
    IF pairs = <<>> THEN obj
    ELSE set_each(Insert(obj, Head(pairs).k, Head(pairs).v), Tail(pairs))

\* from_object / create_object_value of a back end.
create_object(backend, pairs) ==
    CASE backend \in {"duktabe", "quick_js", "quickjs_runtime"} -> collect_HashMap(pairs)
      [] backend \in {"duktape", "wasm_js"} -> set_each(EmptyMap, pairs)

\* The loop of the Array arm leaving out an element that fails.
RECURSIVE Array_to_value_lenient(_, _)
Array_to_value_lenient(values, e) ==
    IF values = <<>> THEN [ok |-> TRUE, err |-> NoDuccError, vs |-> <<>>]
    ELSE LET h == Value_to_value(Head(values), e)
             r == Array_to_value_lenient(Tail(values), e)
         IN  IF ~h.ok THEN r
             ELSE [ok |-> TRUE, err |-> NoDuccError, vs |-> <<h.v>> \o r.vs]

\* ToValue for ValueRust, the Array arm (duktabe.rs 267-276): every element
\* is converted and pushed, in order; the first failure is returned.
RECURSIVE Array_to_value(_, _)
Array_to_value(values, e) ==
    IF values = <<>> THEN [ok |-> TRUE, err |-> NoDuccError, vs |-> <<>>]
    ELSE LET h == Value_to_value(Head(values), e)
         IN  IF ~h.ok THEN [ok |-> FALSE, err |-> h.err, vs |-> <<>>]
             ELSE LET r == Array_to_value(Tail(values), e)
                  IN  IF ~r.ok THEN r
                      ELSE [ok |-> TRUE, err |-> NoDuccError, vs |-> <<h.v>> \o r.vs]

\* Value::from_array of duktabe.rs (151-153): a host value holding the Vec
\* that collect() makes of the iterator.
duktabe_from_array(values) == ValueRust([JsBlank EXCEPT !.t = "Array", !.a = values])

\* Value::from_array of quick_js.rs (58-61): map(|v| v.0).collect().
quick_js_from_array(values) ==
    [ok |-> TRUE, err |-> NoDuccError, vs |-> [i \in 1..Len(values) |-> values[i].v]]

\* The values and keys the host builds arrays and objects of: host values
\* and a value that came out of engine 1.
SeqValues == {duktabe_from_int(1), duktabe_from_int(2), duktabe_from_string("x"),
              ValueDucc(1, 1, DuccNumber(Flt(3000)))}
SeqKeys == {"k", "j"}

NoSeq == [kind |-> "none", items |-> <<>>]
NoSeqOut == [op |-> "none", backend |-> "", ok |-> FALSE, obj |-> EmptyMap, vs |-> <<>>]

\* The iterator yields one more pair.
SeqPair(key, value) ==
    /\ seqIn.kind \in {"none", "pairs"}
    /\ Len(seqIn.items) < MaxItems
    /\ seqIn' = [kind |-> "pairs", items |-> Append(seqIn.items, [k |-> key, v |-> value])]
    /\ seqOut' = NoSeqOut
    /\ UNCHANGED <<coreVars, lateVars, backendVars, convVars, buildVars>>

\* The iterator yields one more value.
SeqValue(value) ==
    /\ seqIn.kind \in {"none", "values"}
    /\ Len(seqIn.items) < MaxItems
    /\ seqIn' = [kind |-> "values", items |-> Append(seqIn.items, value)]
    /\ seqOut' = NoSeqOut
    /\ UNCHANGED <<coreVars, lateVars, backendVars, convVars, buildVars>>

\* from_object / create_object_value over the pairs.
FromObject(backend) ==
    /\ seqIn.kind \in {"none", "pairs"}
    /\ seqOut' = [NoSeqOut EXCEPT !.op = "object", !.backend = backend, !.ok = TRUE,
                                  !.obj = create_object(backend, seqIn.items)]
    /\ UNCHANGED seqIn
    /\ UNCHANGED <<coreVars, lateVars, backendVars, convVars, buildVars>>

\* from_array over the values, and the array marshalled for engine 2.
FromArray(backend) ==
    /\ seqIn.kind \in {"none", "values"}
    /\ backend = "quick_js" => \A i \in 1..Len(seqIn.items) : seqIn.items[i].inner = "Rust"
    /\ LET r == IF backend = "duktabe"
                  THEN Array_to_value(duktabe_from_array(seqIn.items).v.a, 2)
                  ELSE quick_js_from_array(seqIn.items)
       IN  seqOut' = [NoSeqOut EXCEPT !.op = "array", !.backend = backend,
                                      !.ok = r.ok, !.vs = r.vs]
    /\ UNCHANGED seqIn
    /\ UNCHANGED <<coreVars, lateVars, backendVars, convVars, buildVars>>

InitSeq ==
    /\ seqIn = NoSeq
    /\ seqOut = NoSeqOut

NextSeq ==
    \/ \E key \in SeqKeys, value \in SeqValues : SeqPair(key, value)
    \/ \E value \in SeqValues : SeqValue(value)
    \/ \E backend \in EngineBackends : FromObject(backend)
    \/ \E backend \in {"duktabe", "quick_js"} : FromArray(backend)

----------------------------------------------------------------------------
(* Claims about arrays and objects. *)

\* The positions of the pairs with key k.
Occurrences(k) == {i \in 1..Len(seqIn.items) : seqIn.items[i].k = k}
\* The largest number of a non-empty set of numbers.
Last(S) == CHOOSE i \in S : \A j \in S : j <= i

\* C16: object construction keeps keys unique.  The object built from a
\* sequence of pairs has an entry for exactly the keys that occur in the
\* sequence, and the entry of a key holds the value of its last occurrence.
C16_ObjectKeysUnique ==
    seqOut.op = "object" =>
        /\ DOMAIN seqOut.obj = {seqIn.items[i].k : i \in 1..Len(seqIn.items)}
        /\ \A k \in DOMAIN seqOut.obj :
              seqOut.obj[k] = seqIn.items[Last(Occurrences(k))].v

\* An object was built from three pairs, two of them with the same key and
\* different values.
C16_Witness ==
    /\ seqOut.op = "object"
    /\ Len(seqIn.items) = 3
    /\ \E i, j \in 1..3 : /\ i < j /\ seqIn.items[i].k = seqIn.items[j].k
                          /\ seqIn.items[i].v # seqIn.items[j].v
    /\ Cardinality(DOMAIN seqOut.obj) = 2

\* The elements of the latest array whose marshalling fails: an engine
\* value handed to the Arc-based back end.
Failing == {i \in 1..Len(seqIn.items) :
               seqOut.backend = "duktabe" /\ seqIn.items[i].inner = "Ducc"}
\* One element as the engine gets it.
Marshalled(value) ==
    IF seqOut.backend = "duktabe" THEN ValueRust_to_value(value.v).v ELSE value.v

\* C17: arrays preserve insertion order and length.  If the marshalling of
\* one element fails, the conversion of the array fails; otherwise the array
\* has the length of the sequence and its element at position i is the
\* marshalled i-th value.
C17_ArrayOrder ==
    seqOut.op = "array" =>
        IF Failing # {} THEN ~seqOut.ok
        ELSE /\ seqOut.ok
             /\ Len(seqOut.vs) = Len(seqIn.items)
             /\ \A i \in 1..Len(seqIn.items) : seqOut.vs[i] = Marshalled(seqIn.items[i])

\* An array of three different host values was marshalled.
C17_Witness ==
    /\ seqOut.op = "array" /\ seqOut.backend = "duktabe" /\ seqOut.ok
    /\ Len(seqOut.vs) = 3
    /\ seqIn.items[1] # seqIn.items[2] /\ seqIn.items[2] # seqIn.items[3]
    /\ seqIn.items[1] # seqIn.items[3]

----------------------------------------------------------------------------
(* The selection of the back end at compile time (js_engine.rs 51-95).     *)

\* The features in the order cfg_if! tests them, and the module of each.
FeatureOrder == <<"quick-js", "quickjs_runtime", "duktape", "wasm-js">>
Features == {FeatureOrder[i] : i \in 1..Len(FeatureOrder)}
ModuleOf(f) ==
    CASE f = "quick-js" -> "quick_js"
      [] f = "quickjs_runtime" -> "quickjs_runtime"
      [] f = "duktape" -> "duktape"
      [] f = "wasm-js" -> "wasm_js"

\* Build targets, by the cfg predicates the selection reads.
Target(name, unix, windows, env, arch, os) ==
    [name |-> name, unix |-> unix, windows |-> windows, target_env |-> env,
     target_arch |-> arch, target_os |-> os]
Targets ==
    { Target("x86_64-unknown-linux-gnu", TRUE, FALSE, "gnu", "x86_64", "linux"),
      Target("x86_64-pc-windows-gnu", FALSE, TRUE, "gnu", "x86_64", "windows"),
      Target("x86_64-pc-windows-msvc", FALSE, TRUE, "msvc", "x86_64", "windows"),
      Target("wasm32-unknown-unknown", FALSE, FALSE, "", "wasm32", "unknown"),
      Target("wasm32-wasi", FALSE, FALSE, "", "wasm32", "wasi") }

\* The inner #[cfg(..)] of each branch (js_engine.rs 54, 64, 74, 84).
Supports(f, t) ==
    CASE f \in {"quick-js", "quickjs_runtime"} ->
            t.unix \/ (t.windows /\ t.target_env = "gnu")
      [] f = "duktape" -> t.unix \/ t.windows
      [] f = "wasm-js" -> t.target_arch = "wasm32" /\ t.target_os = "unknown"

Compiled(mods, engine) == [ok |-> TRUE, mods |-> mods, engine |-> engine, error |-> ""]
CompileError(msg) == [ok |-> FALSE, mods |-> {}, engine |-> "", error |-> msg]

\* One branch of the selection: the module and the alias, or compile_error!.
Branch(f, t) ==
    IF Supports(f, t) THEN Compiled({ModuleOf(f)}, ModuleOf(f))
    ELSE CompileError(ModuleOf(f) \o " backend is not support in the current build target.")

\* The selection with a separate `if` for every feature: every supported
\* module is compiled and the alias is defined once for each.
cfg_if_independent(fs, t) ==
    LET on == {f \in fs : Supports(f, t)}
    IN  IF on = {} THEN CompileError("Must enable one of the JS engines.")
        ELSE Compiled({ModuleOf(f) : f \in on}, ModuleOf(CHOOSE f \in on : TRUE))

\* cfg_if! { if quick-js {..} else if quickjs_runtime {..} else if duktape
\* {..} else if wasm-js {..} else { compile_error! } } (js_engine.rs 51-95)
cfg_if(fs, t) ==
    IF "quick-js" \in fs THEN Branch("quick-js", t)
    ELSE IF "quickjs_runtime" \in fs THEN Branch("quickjs_runtime", t)
    ELSE IF "duktape" \in fs THEN Branch("duktape", t)
    ELSE IF "wasm-js" \in fs THEN Branch("wasm-js", t)
    ELSE CompileError("Must enable one of the JS engines.")

NotCompiled == [ok |-> FALSE, mods |-> {}, engine |-> "", error |-> "not built"]

\* A feature is switched on or off in the manifest or on the command line.
ToggleFeature(f) ==
    /\ features' = IF f \in features THEN features \ {f} ELSE features \cup {f}
    /\ compiled' = NotCompiled
    /\ UNCHANGED target
    /\ UNCHANGED <<coreVars, lateVars, backendVars, convVars, seqVars>>

\* Another target is chosen.
SetTarget(t) ==
    /\ t # target
    /\ target' = t
    /\ compiled' = NotCompiled
    /\ UNCHANGED features
    /\ UNCHANGED <<coreVars, lateVars, backendVars, convVars, seqVars>>

\* The crate is compiled.
Compile ==
    /\ compiled' = cfg_if(features, target)
    /\ UNCHANGED <<features, target>>
    /\ UNCHANGED <<coreVars, lateVars, backendVars, convVars, seqVars>>

InitBuild ==
    /\ features = {}
    /\ target = Target("x86_64-unknown-linux-gnu", TRUE, FALSE, "gnu", "x86_64", "linux")
    /\ compiled = NotCompiled

NextBuild ==
    \/ \E f \in Features : ToggleFeature(f)
    \/ \E t \in Targets : SetTarget(t)
    \/ Compile

----------------------------------------------------------------------------
(* Claims about the build. *)

\* The first enabled feature in the order of the selection.
FirstEnabled ==
    FeatureOrder[CHOOSE i \in 1..Len(FeatureOrder) :
                    /\ FeatureOrder[i] \in features
                    /\ \A j \in 1..(i - 1) : FeatureOrder[j] \notin features]

\* C18: back end selection.  For every set of features and every target,
\* the build either compiles exactly one back end module and aliases it as
\* Engine, or fails with a compile error.  It fails when no feature is
\* enabled and when the selected back end does not support the target; with
\* several features enabled the first in the order quick-js,
\* quickjs_runtime, duktape, wasm-js is the selected one.
C18_BackendSelection ==
    compiled # NotCompiled =>
        /\ compiled.ok => (Cardinality(compiled.mods) = 1 /\ compiled.engine \in compiled.mods)
        /\ ~compiled.ok => (compiled.mods = {} /\ compiled.error # "")
        /\ features = {} => ~compiled.ok
        /\ features # {} =>
              /\ compiled.ok <=> Supports(FirstEnabled, target)
              /\ compiled.ok => compiled.engine = ModuleOf(FirstEnabled)

\* Two features are enabled, the first of them does not support the target
\* and the second does, and the build was run.
C18_Witness ==
    /\ compiled # NotCompiled
    /\ features = {"quick-js", "wasm-js"}
    /\ target.name = "wasm32-unknown-unknown"
    /\ ~compiled.ok

----------------------------------------------------------------------------
(* One thread's render calls, observed in full: what each call was given,  *)
(* what it returned, and what the payload received (lib.rs 422-438).       *)

\* The options the observed calls are made with.
ObservedOpts ==
    RenderOpts \cup
    { [DefaultOpts EXCEPT !.trust = OptSome(TRUE)],
      [DefaultOpts EXCEPT !.trust = OptSome(FALSE)],
      [DefaultOpts EXCEPT !.display_mode = OptSome(TRUE)] }

NoSeen == [made |-> FALSE, input |-> "", o |-> DefaultOpts, native |-> TRUE,
           before |-> "", result |-> NoResult, ops |-> <<>>, called |-> "",
           given |-> OptNone, args |-> <<>>]

\* render_with_opts(input, opts) on the thread (lib.rs 422-438).  native says
\* that the native layer failed no step of this call; before is the callback
\* bound to trustCallback when the call began, args the arguments handed to
\* renderToString, given the options object the payload received from it.
RenderObserved(input, o, env) ==
    /\ env \in EnvOf(tls.slot, o)
    /\ LET w == KatexWith(tls.slot, tls.ctx, env)
           r == render_closure(w.slot, w.ctx, input, o, env)
       IN  /\ tls' = [slot |-> w.slot, ctx |-> r.ctx]
           /\ seen' = [made |-> TRUE, input |-> input, o |-> o,
                       native |-> \A k \in EnvSteps : env[k] = "ok",
                       before |-> tls.ctx.trustCallback, result |-> r.result,
                       ops |-> r.ops, called |-> r.called, given |-> r.given,
                       args |-> r.args]
    /\ UNCHANGED <<coreVars, moreVars, converted, macroState, trustCall>>

InitRender ==
    /\ tls = [slot |-> Uninit, ctx |-> NoContext]
    /\ seen = NoSeen

NextRender ==
    \E input \in Inputs, o \in ObservedOpts, env \in EnvOutcomes :
        RenderObserved(input, o, env)

\* A context right after a successful init_katex, and a native layer that
\* fails nothing.
LoadedContext == [NewContext EXCEPT !.scripts = <<"KATEX_SRC", "renderToString">>]
NativeOk == [k \in EnvSteps |-> "ok"]

UrlInput == "\\url{https://www.google.com}"

C27_CallbackOfTheCall ==
    (seen.made /\ tls.slot.state = "ok") =>
        /\ (is_some(seen.o.trust_callback) /\ seen.native) =>
              LET c == unwrap(seen.o.trust_callback)
              IN  /\ Len(seen.ops) = 2
                  /\ seen.ops[1] = EngineOp("add_callback", TRUE)
                  /\ seen.ops[2].op = "call_function"
                  /\ tls.ctx.trustCallback = c
                  /\ seen.called \in {"", c}
                  /\ seen.input = UrlInput => seen.called = c
        /\ (is_some(seen.o.trust_callback) /\ ~seen.native) =>
              /\ seen.called = ""
              /\ seen.ops = <<EngineOp("add_callback", FALSE)>>
        /\ ~is_some(seen.o.trust_callback) =>
              /\ seen.called = ""
              /\ tls.ctx.trustCallback = seen.before

\* A call without a trust_callback, for the input that asks about trust, on
\* a thread where an earlier call had registered a callback.
C27_Witness ==
    /\ seen.made /\ tls.slot.state = "ok"
    /\ seen.before = "cbAllow"
    /\ seen.o = DefaultOpts
    /\ seen.input = UrlInput
    /\ seen.result = OkResult("katex color")

\* C28: the trust key of the options object is the string USE_TRUST_CALLBACK
\* iff trust_callback is set, the boolean given to trust iff trust is set
\* and trust_callback is not, and absent iff neither is set; the wrapper
\* hands the payload the registered trustCallback function in place of the
\* sentinel and every other key and value unchanged.
C28_TrustKey ==
    (seen.made /\ seen.args # <<>>) =>
        LET obj      == seen.args[2].o
            has      == "trust" \in DOMAIN obj
            sentinel == has /\ obj["trust"] = JsString("USE_TRUST_CALLBACK")
            cb       == is_some(seen.o.trust_callback)
            flag     == is_some(seen.o.trust)
        IN  /\ sentinel <=> cb
            /\ (has /\ obj["trust"].t = "Bool") <=> (flag /\ ~cb)
            /\ (flag /\ ~cb) => obj["trust"] = JsBool(unwrap(seen.o.trust))
            /\ ~has <=> (~flag /\ ~cb)
            /\ is_some(seen.given) =>
                  LET g == unwrap(seen.given)
                  IN  /\ DOMAIN g = DOMAIN obj
                      /\ \A k \in DOMAIN obj \ {"trust"} : g[k] = obj[k]
                      /\ sentinel => g["trust"] = JsFunction(unwrap(seen.o.trust_callback))
                      /\ (has /\ ~sentinel) => g["trust"] = obj["trust"]

\* The payload was handed the callback of the call in place of the sentinel.
C28_Witness ==
    /\ seen.made /\ is_some(seen.given) /\ seen.args # <<>>
    /\ "trust" \in DOMAIN seen.args[2].o
    /\ seen.args[2].o["trust"] = JsString("USE_TRUST_CALLBACK")
    /\ unwrap(seen.given)["trust"] = JsFunction("cbDeny")
    /\ seen.before = "cbAllow"

----------------------------------------------------------------------------
(* The classification of ducc::Error at the `?` of the duktape adapter     *)
(* (duktape.rs 33, 48, 50, 59-80, 91, 108, 118-129).                       *)

\* The kinds of ducc::ErrorKind and the errors of each kind.
DuccErrorKinds ==
    {"ToJsConversionError", "FromJsConversionError", "RuntimeError",
     "RecursiveMutCallback", "ExternalError", "NotAFunction"}
RuntimeErrorCodes ==
    {"Error", "EvalError", "RangeError", "ReferenceError", "SyntaxError",
     "TypeError", "URIError"}
DuccErrors ==
    { DuccError(k, "", "", from, to) :
        k \in {"ToJsConversionError", "FromJsConversionError"},
        from \in {"undefined", "number", "object"}, to \in {"Function", "String"} }
    \cup { DuccRuntimeError(code, name) :
             code \in RuntimeErrorCodes, name \in {"parse error", "x is not defined"} }
    \cup { DuccError(k, "", "", "", "") :
             k \in {"RecursiveMutCallback", "ExternalError", "NotAFunction"} }

\* The fallible calls of the adapter whose error `?` converts.
QuestionSites ==
    {"exec", "globals.get", "function.call", "to_value", "obj.set", "from_value"}

NoConverted == [made |-> FALSE, site |-> "", e |-> NoDuccError, out |-> NoError]

\* `?` on a Result<_, ducc::Error> that is Err(e): From::from(e) is returned.
Question(site, e) ==
    /\ converted' = [made |-> TRUE, site |-> site, e |-> e, out |-> FromDuccError(e)]
    /\ UNCHANGED <<coreVars, moreVars, renderVars, macroState, trustCall>>

InitError == converted = NoConverted

NextError == \E site \in QuestionSites, e \in DuccErrors : Question(site, e)

\* C23: every ducc::Error is converted to exactly one crate Error:
\* JsValueError when its kind is ToJsConversionError or FromJsConversionError,
\* JsExecError for every other kind, never JsInitError; the detail is the
\* display text of the native error.
C23_Classification ==
    converted.made =>
        /\ converted.e.kind \in DuccErrorKinds
        /\ converted.out.kind \in {"JsExecError", "JsValueError"}
        /\ converted.out.kind = "JsValueError" <=>
              converted.e.kind \in {"ToJsConversionError", "FromJsConversionError"}
        /\ converted.out.kind = "JsExecError" <=>
              converted.e.kind \in {"RuntimeError", "RecursiveMutCallback",
                                    "ExternalError", "NotAFunction"}
        /\ converted.out.detail = DuccToString(converted.e)

\* A value being handed to the engine failed its conversion.
C23_Witness ==
    /\ converted.made
    /\ converted.site = "to_value"
    /\ converted.e.kind = "ToJsConversionError"
    /\ converted.out.kind = "JsValueError"

----------------------------------------------------------------------------
(* add_macro on the builder and on the Opts (opts.rs 86-88, 200-212;       *)
(* lib.rs 263-265, 386-398), build, and the conversion of the macros.      *)

MacroNames == {"\\RR", "\\NN"}
MacroData  == {"\\mathbb{R}", "\\mathbb{N}"}

\* add_macro starting a new map at every call.
OptsBuilder_add_macro_fresh(macros, entry_name, entry_data) ==
    OptSome(Insert(EmptyMap, entry_name, entry_data))

\* OptsBuilder::add_macro (opts.rs 200-212): macros is the builder's
\* Option<HashMap>; the result is the field of the builder returned.
OptsBuilder_add_macro(macros, entry_name, entry_data) ==
    IF is_some(macros)
      THEN OptSome(Insert(unwrap(macros), entry_name, entry_data))
      ELSE OptSome(Insert(EmptyMap, entry_name, entry_data))

\* Opts::add_macro (opts.rs 86-88): self.macros.insert(name, data)
Opts_add_macro(macros, entry_name, entry_data) ==
    Insert(macros, entry_name, entry_data)

\* builder: the macros field of the OptsBuilder; built: build() was called;
\* macros: the macros of the Opts; added: the add_macro calls made so far, in
\* order; out: the latest conversion of the Opts.
NoMacros == [builder |-> OptNone, built |-> FALSE, macros |-> EmptyMap,
             added |-> <<>>, out |-> NoConv]

BuilderAddMacro(entry_name, entry_data) ==
    /\ ~macroState.built
    /\ Len(macroState.added) < MaxItems
    /\ macroState' = [macroState EXCEPT
          !.builder = OptsBuilder_add_macro(@, entry_name, entry_data),
          !.added = Append(@, <<entry_name, entry_data>>)]
    /\ UNCHANGED <<coreVars, moreVars, renderVars, converted, trustCall>>

\* OptsBuilder::build (derive_builder, #[builder(default)]): a field never
\* assigned takes its Default, the empty map.
MacroBuild ==
    /\ ~macroState.built
    /\ macroState' = [macroState EXCEPT
          !.built = TRUE,
          !.macros = IF is_some(macroState.builder)
                       THEN unwrap(macroState.builder) ELSE EmptyMap]
    /\ UNCHANGED <<coreVars, moreVars, renderVars, converted, trustCall>>

OptsAddMacro(entry_name, entry_data) ==
    /\ macroState.built
    /\ Len(macroState.added) < MaxItems
    /\ macroState' = [macroState EXCEPT
          !.macros = Opts_add_macro(@, entry_name, entry_data),
          !.added = Append(@, <<entry_name, entry_data>>),
          !.out = NoConv]
    /\ UNCHANGED <<coreVars, moreVars, renderVars, converted, trustCall>>

\* opts.to_js_value() (opts.rs 116) and opts.into() (lib.rs 431) of the Opts.
MacroConvert(by) ==
    /\ macroState.built
    /\ LET o == [DefaultOpts EXCEPT !.macros = macroState.macros]
       IN  macroState' = [macroState EXCEPT
              !.out = [made |-> TRUE, by |-> by,
                       obj |-> IF by = "to_js_value" THEN to_js_value(o)
                               ELSE OptsIntoJsValue(o)]]
    /\ UNCHANGED <<coreVars, moreVars, renderVars, converted, trustCall>>

InitMacro == macroState = NoMacros

NextMacro ==
    \/ \E n \in MacroNames, d \in MacroData : BuilderAddMacro(n, d)
    \/ MacroBuild
    \/ \E n \in MacroNames, d \in MacroData : OptsAddMacro(n, d)
    \/ \E by \in {"to_js_value", "into"} : MacroConvert(by)

\* The names added so far, each with the data of the last call that added it.
LastAdded(adds) ==
    [n \in {adds[i][1] : i \in DOMAIN adds} |->
        adds[CHOOSE i \in DOMAIN adds :
                 /\ adds[i][1] = n
                 /\ \A j \in DOMAIN adds : adds[j][1] = n => j <= i][2]]

\* C25: after any sequence of add_macro calls the macros map holds exactly
\* the names added, each with the data of the last add_macro of that name;
\* the first call on a builder creates the map; the options object carries
\* the macros under the key macros.
C25_AddMacroAccumulates ==
    LET expected == LastAdded(macroState.added)
    IN  /\ ~macroState.built =>
              /\ macroState.added = <<>> => ~is_some(macroState.builder)
              /\ macroState.added # <<>> =>
                    (is_some(macroState.builder) /\ unwrap(macroState.builder) = expected)
        /\ macroState.built => macroState.macros = expected
        /\ (macroState.out.made /\ macroState.added # <<>>) =>
              /\ "macros" \in DOMAIN macroState.out.obj.o
              /\ macroState.out.obj.o["macros"]
                    = JsObject([n \in DOMAIN expected |-> JsString(expected[n])])

\* Two names were added, one of them twice with different data (the later
\* call last), and the Opts was converted.
C25_Witness ==
    /\ macroState.out.made
    /\ macroState.added = << <<"\\RR", "\\mathbb{N}">>, <<"\\NN", "\\mathbb{N}">>,
                            <<"\\RR", "\\mathbb{R}">> >>
    /\ macroState.out.obj.o["macros"].o["\\RR"] = JsString("\\mathbb{R}")

----------------------------------------------------------------------------
(* TrustContext::try_from and TrustCallback::call (lib.rs 99-165).         *)

\* JsValue::as_str as lib.rs 107 uses it: the text of a String, else None.
JsValue_as_str(v) == IF v.t = "String" THEN OptSome(v.s) ELSE OptNone

TrustKeys == {"command", "url", "protocol"}

\* One entry of the object: obj.get(key).ok_or_else(..)?.as_str().ok_or_else(..)?
TrustEntry(obj, key) ==
    IF key \notin DOMAIN obj THEN OptNone ELSE JsValue_as_str(obj[key])

\* A conversion that takes a missing or non-string protocol for "".
TrustContext_try_from_lenient(input) ==
    IF /\ input.t = "Object"
       /\ is_some(TrustEntry(input.o, "command"))
       /\ is_some(TrustEntry(input.o, "url"))
      THEN [ok |-> TRUE,
            v |-> [command |-> unwrap(TrustEntry(input.o, "command")),
                   url |-> unwrap(TrustEntry(input.o, "url")),
                   protocol |-> IF is_some(TrustEntry(input.o, "protocol"))
                                  THEN unwrap(TrustEntry(input.o, "protocol")) ELSE ""]]
      ELSE [ok |-> FALSE, v |-> [command |-> "", url |-> "", protocol |-> ""]]

\* TryFrom<&JsValue> for TrustContext (lib.rs 99-129); a failure is
\* ValueError::UnexpectedType.
TrustContext_try_from(input) ==
    LET none == [ok |-> FALSE, v |-> [command |-> "", url |-> "", protocol |-> ""]]
    IN  IF input.t # "Object" THEN none
        ELSE LET command  == TrustEntry(input.o, "command")
                 url      == TrustEntry(input.o, "url")
                 protocol == TrustEntry(input.o, "protocol")
             IN  IF ~is_some(command) THEN none
                 ELSE IF ~is_some(url) THEN none
                 ELSE IF ~is_some(protocol) THEN none
                 ELSE [ok |-> TRUE,
                       v |-> [command |-> unwrap(command), url |-> unwrap(url),
                              protocol |-> unwrap(protocol)]]

\* The closures a TrustCallback wraps, and what each answers to a context:
\* the closure of the tests and the two constant ones.
Closures == TrustCallbacks \cup {"cbTest"}
Closure(cb, ctx) ==
    IF cb = "cbTest"
      THEN /\ ctx.command = "\\url"
           /\ ctx.protocol = "https"
           /\ ctx.url = "https://www.google.com"
      ELSE CallbackAnswer(cb)

\* Callback::argument_count (lib.rs 150-152)
argument_count == 1

\* Callback::call (lib.rs 154-164): Ok(Ok(JsValue::from(result))) or the
\* ValueError; invocations counts the calls of the closure.
TrustCallback_call(cb, args) ==
    IF Len(args) = 0
      THEN [ok |-> FALSE, err |-> UnexpectedType, ret |-> JsNull, invocations |-> 0]
      ELSE LET ctx == TrustContext_try_from(args[1])
           IN  IF ~ctx.ok
                 THEN [ok |-> FALSE, err |-> UnexpectedType, ret |-> JsNull,
                       invocations |-> 0]
                 ELSE [ok |-> TRUE, err |-> NativeError("", ""),
                       ret |-> JsBool(Closure(cb, ctx.v)), invocations |-> 1]

\* The values the engine may hand the callback: scalars, and objects in which
\* each of the three entries is missing, a string, or a number.
TrustObjects ==
    { JsObject(m) : m \in UNION {[ks -> {JsString("https"), JsInt(7)}] :
                                    ks \in SUBSET TrustKeys} }
    \cup { JsObject([command |-> JsString("\\url"), url |-> JsString("https://www.google.com"),
                     protocol |-> p]) : p \in {JsString("https"), JsString("http")} }
TrustArgs ==
    {<<>>} \cup {<<v>> : v \in TrustObjects \cup {JsNull, JsString("\\url")}}
           \cup {<<v, JsNull>> : v \in TrustObjects}

NoTrustCall == [made |-> FALSE, cb |-> "", args |-> <<>>,
                r |-> [ok |-> FALSE, err |-> NativeError("", ""), ret |-> JsNull,
                       invocations |-> 0],
                count |-> 0]

\* The engine calls the registered callback: argument_count(), then call(args).
CallbackCall(cb, args) ==
    /\ trustCall' = [made |-> TRUE, cb |-> cb, args |-> args,
                     r |-> TrustCallback_call(cb, args), count |-> argument_count]
    /\ UNCHANGED <<coreVars, moreVars, renderVars, converted, macroState>>

InitTrust == trustCall = NoTrustCall

NextTrust == \E cb \in Closures, args \in TrustArgs : CallbackCall(cb, args)

\* The first argument is an object whose command, url and protocol entries
\* are all present and are strings.
WellFormed(args) ==
    /\ Len(args) >= 1
    /\ args[1].t = "Object"
    /\ \A k \in TrustKeys : k \in DOMAIN args[1].o /\ args[1].o[k].t = "String"

\* C29: TrustCallback::call invokes the closure exactly once and returns the
\* boolean it produced when the first argument is an object whose command,
\* url and protocol entries are all present and strings; otherwise it returns
\* ValueError::UnexpectedType without invoking the closure; argument_count
\* is always 1.
C29_TrustCallbackCall ==
    trustCall.made =>
        /\ trustCall.count = 1
        /\ WellFormed(trustCall.args) =>
              /\ trustCall.r.ok
              /\ trustCall.r.invocations = 1
              /\ trustCall.r.ret =
                    JsBool(Closure(trustCall.cb,
                                   [k \in TrustKeys |-> trustCall.args[1].o[k].s]))
        /\ ~WellFormed(trustCall.args) =>
              /\ ~trustCall.r.ok
              /\ trustCall.r.err = UnexpectedType
              /\ trustCall.r.invocations = 0

\* The callback was called with an object that has command and url but whose
\* protocol is not a string.
C29_Witness ==
    /\ trustCall.made
    /\ Len(trustCall.args) = 1
    /\ trustCall.args[1].t = "Object"
    /\ DOMAIN trustCall.args[1].o = TrustKeys
    /\ trustCall.args[1].o["protocol"].t = "Int"
    /\ trustCall.args[1].o["command"].t = "String"
    /\ trustCall.args[1].o["url"].t = "String"
    /\ ~trustCall.r.ok

----------------------------------------------------------------------------
(* The specifications. *)

Init == InitCache /\ InitEngine /\ InitValue /\ InitOpts /\ InitBackend
        /\ InitConv /\ InitSeq /\ InitBuild
        /\ InitRender /\ InitError /\ InitMacro /\ InitTrust

SpecCache == Init /\ [][NextCache]_vars

SpecEngine == Init /\ [][NextEngine]_vars

SpecValue == Init /\ [][NextValue]_vars

SpecOpts == Init /\ [][NextOpts]_vars

SpecBackend == Init /\ [][NextBackend]_vars

SpecConv == Init /\ [][NextConv]_vars

SpecSeq == Init /\ [][NextSeq]_vars

SpecBuild == Init /\ [][NextBuild]_vars

SpecRender == Init /\ [][NextRender]_vars

SpecError == Init /\ [][NextError]_vars

SpecMacro == Init /\ [][NextMacro]_vars

SpecTrust == Init /\ [][NextTrust]_vars

====
